---------------------------- MODULE Spec2Model ----------------------------
(***************************************************************************)
(* Model of the GPIC profitability optimizer (src/src/Dashboard.jsx): the  *)
(* cost model calcVC, the consumption model calcGas, the profit function   *)
(* calcProfit, the vertex-enumerating solver solveLP, the shutdown profit  *)
(* calcShutdownProfit and the shutdown sweep; the cost model of            *)
(* src/src/dashboard.jsx; the cost and consumption models and the case     *)
(* selection of the YALPS variant (src/unnamed/part_002); and the shutdown *)
(* sweep of src/src/App.tsx.                                               *)
(*                                                                         *)
(* The program computes in binary64 floating point.  The model computes in *)
(* decimal fixed point, every quantity an integer number of units:         *)
(*   mass (D5, K4, K9, K10, K11, capacities x days) ... 0.001 MT           *)
(*   daily capacities ................................. 0.001 MT/day       *)
(*   prices and unit variable costs ................... 0.00001 $/MT       *)
(*   gas price ........................................ 0.1 $/MMBTU        *)
(*   gas volume ....................................... 1 Nm3              *)
(*   gas flow (mmscfd, maxGasMMSCFD) .................. 0.00001 MMSCFD     *)
(*   profit ........................................... 0.00000001 $,      *)
(*       kept as a pair <<hi, lo>> = hi * 10^8 + lo, 0 <= lo < 10^8,       *)
(*       so hi is the profit in whole dollars rounded down.                *)
(* A product of a unit cost margin and a mass is exact in profit units.    *)
(* Products with the process coefficients are rounded down to a unit.      *)
(***************************************************************************)
EXTENDS Integers, Sequences, FiniteSets, TLC

(***************************************************************************)
(* Fixed-point arithmetic.  Machine integers are 32 bits wide, so a        *)
(* product is formed from base-10^4 limbs and kept as <<hi, lo>>.          *)
(***************************************************************************)
Abs(x) == IF x < 0 THEN -x ELSE x

Min(a, b) == IF a < b THEN a ELSE b

Max(a, b) == IF a > b THEN a ELSE b

Pow10(k) == CASE k = 0 -> 1 [] k = 1 -> 10 [] k = 2 -> 100 [] k = 3 -> 1000
              [] k = 4 -> 10000 [] k = 5 -> 100000 [] k = 6 -> 1000000
              [] k = 7 -> 10000000 [] k = 8 -> 100000000


\* a + b * 10^4 + c * 10^8 + d * 10^12 + e * 10^16 as <<hi, lo>>, for limb
\* products a .. e.
WideCarry(a, b, c, d, e) ==
  << e * 100000000 + d * 10000 + c + (b \div 10000)
       + ((a + (b % 10000) * 10000) \div 100000000),
     (a + (b % 10000) * 10000) % 100000000 >>

\* The product of x0 + x1 * 10^4 + x2 * 10^8 and y0 + y1 * 10^4 + y2 * 10^8.
WideMulLimbs(x0, x1, x2, y0, y1, y2) ==
  WideCarry(x0 * y0, x1 * y0 + x0 * y1, x2 * y0 + x1 * y1 + x0 * y2,
            x2 * y1 + x1 * y2, x2 * y2)

\* x * y for 0 <= x, y < 2^31 as <<hi, lo>> with x * y = hi * 10^8 + lo.
WideMulNat(x, y) ==
  WideMulLimbs(x % 10000, (x \div 10000) % 10000, x \div 100000000,
               y % 10000, (y \div 10000) % 10000, y \div 100000000)

\* -w for a wide number w.
WNeg(w) == IF w[2] = 0 THEN << -w[1], 0 >> ELSE << -w[1] - 1, 100000000 - w[2] >>

\* v + w for wide numbers.
WAdd(v, w) ==
  IF v[2] + w[2] >= 100000000 THEN << v[1] + w[1] + 1, v[2] + w[2] - 100000000 >>
                              ELSE << v[1] + w[1], v[2] + w[2] >>

WSub(v, w) == WAdd(v, WNeg(w))

\* v < w, v <= w for wide numbers.
WLess(v, w) == v[1] < w[1] \/ (v[1] = w[1] /\ v[2] < w[2])

WLeq(v, w) == ~WLess(w, v)

\* m or -m.
WSigned(m, negative) == IF negative THEN WNeg(m) ELSE m

\* x * y for signed x, y, exact, as a wide number.
WideMul(x, y) == WSigned(WideMulNat(Abs(x), Abs(y)), (x < 0) # (y < 0))

\* A whole number of dollars d plus f units of 10^-8 $ as a wide number.
Dollars(d, f) == << d, f >>

\* m / 10^k for a wide m >= 0, rounded down.
WShift(m, k) == m[1] * Pow10(8 - k) + (m[2] \div Pow10(k))

\* x * c / 10^k for a coefficient c given in units of 10^-k, k <= 8, rounded
\* toward zero to a whole unit of x.
MulDiv10(x, c, k) ==
  IF x < 0 THEN -WShift(WideMulNat(-x, c), k) ELSE WShift(WideMulNat(x, c), k)

(***************************************************************************)
(* Process constants (Dashboard.jsx lines 12-49), each in the units given. *)
(***************************************************************************)
K7 == 57                  \* 0.57, in 1/100
ALPHA == 10921745         \* 0.1092174534, in 10^-8
C33_COEFF == 1660263      \* 1.660263, in 10^-6
CAPA == 4247000           \* 4247 MT, in 0.001 MT
CAPB == 5580000           \* 5580 MT, in 0.001 MT
VP == 1500000             \* 15 $/MT, in 0.00001 $/MT
SGC_AMM == 101567944      \* 1015.6794425 Nm3/MT = 1.01567944 Nm3 per 0.001 MT, in 10^-8
SGC_METH == 115315740     \* 1153.1574 Nm3/MT, in 10^-8 Nm3 per 0.001 MT
B_AMM == 23735826         \* 237.35825884 Nm3/MT, in 10^-8 Nm3 per 0.001 MT
B_METH == 11004649        \* 110.04648879 Nm3/MT, in 10^-8 Nm3 per 0.001 MT
B_UREA == 10416895        \* 104.16894623 Nm3/MT, in 10^-8 Nm3 per 0.001 MT
GT == 5053000             \* Nm3 per month
FL == 424700              \* Nm3 per month
GCV == 373250000          \* 37.325, in units that turn Nm3 into 0.00001 MMSCFD x days
FC_TOTAL_DOLLARS == 8279075   \* FC_AMM + FC_METH + FC_UREA = 8279075.1160221, whole $
FC_TOTAL_FRAC == 11602210     \* and its fraction, in 10^-8 $
VC_AMM_SLOPE == 380815612     \* 38.081561175, in 10^-7 $/MT per $/MMBTU
VC_AMM_INTERCEPT == 81958553  \* 8.1958552998, in 10^-7 $/MT
VC_METH_SLOPE == 403080541    \* 40.308054074
VC_METH_INTERCEPT == 38083837 \* 3.8083837032
VC_UREA_SLOPE == 265192822    \* 26.519282207
VC_UREA_INTERCEPT == 137173712 \* 13.717371174
R13_DAILY == 739728510        \* 739.7285097628 MT/day, in 10^-6 MT/day

FC_TOTAL == Dollars(FC_TOTAL_DOLLARS, FC_TOTAL_FRAC)

\* The tolerances of the comparisons, in the units of what they compare.
TolMass == 10             \* 0.01 MT
TolGas == 1000            \* 0.01 MMSCFD
TolGasBisect == 100       \* 0.001 MMSCFD
TolProfit == 100000       \* 0.001 $, in 10^-8 $
Iterations == 60          \* halvings of each bisection

(***************************************************************************)
(* Derived calculation functions (Dashboard.jsx lines 55-97).              *)
(***************************************************************************)
\* The slope term alone, the intercept left out.
SlopeOnly(intercept, slope, gasPrice) == WShift(WideMulNat(slope, gasPrice), 3)

\* A sign error: the slope term subtracted.
SlopeTimesFalling(intercept, slope, gasPrice) ==
  WShift(WSub(Dollars(intercept \div 10000000, (intercept % 10000000) * 10),
              WideMulNat(slope, gasPrice)), 3)

\* intercept + slope x gasPrice in 0.00001 $/MT, for intercept and slope in
\* 10^-7 and gasPrice >= 0 in 0.1 $/MMBTU (the sum is taken in 10^-8 $/MT).
SlopeTimes(intercept, slope, gasPrice) ==
  WShift(WAdd(WideMulNat(slope, gasPrice),
              Dollars(intercept \div 10000000, (intercept % 10000000) * 10)), 3)

\* Lines 57-63 with the urea penalty not scaled by K7.
VCRecordUnscaled(aA, meth, urea) ==
  [ ammA |-> aA, ammB |-> aA + VP, meth |-> meth,
    ureaA |-> urea, ureaB |-> urea + VP ]

\* Lines 57-63, from aA and the urea cost of line 61.
VCRecord(aA, meth, urea) ==
  [ ammA |-> aA, ammB |-> aA + VP, meth |-> meth,
    ureaA |-> urea, ureaB |-> urea + (K7 * VP) \div 100 ]

calcVC(gasPrice) ==
  VCRecord(SlopeTimes(VC_AMM_INTERCEPT, VC_AMM_SLOPE, gasPrice),
           SlopeTimes(VC_METH_INTERCEPT, VC_METH_SLOPE, gasPrice),
           SlopeTimes(VC_UREA_INTERCEPT, VC_UREA_SLOPE, gasPrice))

calcR13(days) == MulDiv10(days, R13_DAILY, 3)

\* (maxUreaDaily * days) / C33_COEFF, three decimal digits at a time.
DivC33(x) ==
  LET q0 == x \div C33_COEFF
      r0 == x % C33_COEFF
      q1 == (r0 * 1000) \div C33_COEFF
      r1 == (r0 * 1000) % C33_COEFF
      q2 == (r1 * 1000) \div C33_COEFF
  IN  q0 * 1000000 + q1 * 1000 + q2

calcD33(maxUreaDaily, days) == DivC33(maxUreaDaily * days)

\* K7 * K9 and C33_COEFF * K10, in mass units.
K7Times(K9) == MulDiv10(K9, K7, 2)

C33Times(K10) == MulDiv10(K10, C33_COEFF, 6)

AlphaTimes(D5) == MulDiv10(D5, ALPHA, 8)

\* Line 85: the flow rate of a gas volume.
GasFlow(totalNm3, days) ==
  [ mmscfd |-> MulDiv10(totalNm3, GCV, 8) \div days, totalNm3 |-> totalNm3 ]

\* Lines 74-89: totalNm3 = C12A + C12B + D12 + GT + C15A + C15B + FL.
calcGas(K10A, K10B, D5A, D5B, K9A, K9B, days) ==
  GasFlow(MulDiv10(K10A, SGC_AMM, 8) + MulDiv10(K10B, SGC_AMM, 8)
            + MulDiv10(D5A + D5B, SGC_METH, 8) + GT
            + MulDiv10(D5A, B_METH, 8) + MulDiv10(K10A, B_AMM, 8)
            + MulDiv10(K9A, B_UREA, 8)
            + MulDiv10(D5B, B_METH, 8) + MulDiv10(K10B, B_AMM, 8)
            + MulDiv10(K9B, B_UREA, 8) + FL,
          days)

\* Lines 91-97: profitA + profitB - FC_TOTAL.
calcProfit(pAmm, pMeth, pUrea, vc, K10A, K10B, D5A, D5B, K9A, K9B) ==
  WSub(WAdd(WAdd(WAdd(WideMul(pAmm - vc.ammA, K10A - K7Times(K9A)),
                      WideMul(pMeth - vc.meth, D5A)),
                 WideMul(pUrea - vc.ureaA, K9A)),
            WAdd(WAdd(WideMul(pAmm - vc.ammB, K10B - K7Times(K9B)),
                      WideMul(pMeth - vc.meth, D5B)),
                 WideMul(pUrea - vc.ureaB, K9B))),
       FC_TOTAL)

(***************************************************************************)
(* solveLP (Dashboard.jsx lines 104-373).  An input i is the record of the *)
(* nine arguments.  A candidate is the argument list of one call of        *)
(* evaluateAndUpdate; the candidate lists below are the calls the loops    *)
(* make, in the order they make them.  bestResult is <<>> for null and     *)
(* <<r>> for a result r.                                                   *)
(***************************************************************************)
OneMT == 1000             \* the literal 1 (MT) of the candidate lists

maxD5(i) == i.maxMethDaily * i.days

maxE5(i) == i.maxUreaDaily * i.days

maxK4(i) == i.maxAmmDaily * i.days

R13(i) == calcR13(i.days)

D33(i) == calcD33(i.maxUreaDaily, i.days)

\* Lines 123, 184, 244, 298, 336 (and negated in 207, 264, 317, 352): saleable
\* ammonia K10 - K8 is short by more than the tolerance.
\* ShortNever drops the check; C4 does not hold of it.
ShortNever(K10, K8) == FALSE

Short(K10, K8) == K10 - K8 < -TolMass

Cand(caseLabel, D5A, D5B, K4A, K4B, K9A, K9B) ==
  [ caseLabel |-> caseLabel, D5A |-> D5A, D5B |-> D5B, K4A |-> K4A,
    K4B |-> K4B, K9A |-> K9A, K9B |-> K9B ]

\* Lines 115-116: the K10 a candidate stands for.
CandK10A(c) == IF c.caseLabel = "A" THEN c.K4A - CAPA + AlphaTimes(c.D5A) ELSE 0

CandK10B(c) == IF c.caseLabel # "A" THEN c.K4B - CAPB ELSE 0

\* Lines 117-121, 125, 128 and 131-145: what evaluateAndUpdate computes from
\* a candidate c with gross ammonia K10A, K10B, gas g and profit p.  K11 is
\* the field as stored, max(0, K10 - K8).
\* n / d, kept exact; and k times such a quotient, in whole units.
Ratio(n, d) == [ num |-> n, den |-> d ]

RatioTimes(q, k) == (q.num * k) \div q.den

ResultRecord(c, K10A, K10B, K8, g, p, vc, days) ==
  [ caseLabel |-> c.caseLabel, D5A |-> c.D5A, D5B |-> c.D5B,
    K4A |-> c.K4A, K4B |-> c.K4B, K10A |-> K10A, K10B |-> K10B,
    K10 |-> K10A + K10B, K9A |-> c.K9A, K9B |-> c.K9B, K9 |-> c.K9A + c.K9B,
    K8 |-> K8, K11 |-> Max(0, K10A + K10B - K8), D5 |-> c.D5A + c.D5B,
    K4 |-> c.K4A + c.K4B, gasMMSCFD |-> g.mmscfd, gasNm3 |-> g.totalNm3,
    profit |-> p,
    dailyAmm |-> Ratio(K10A + K10B - K8, days),
    dailyAmmProd |-> Ratio(K10A + K10B, days),
    dailyMeth |-> Ratio(c.D5A + c.D5B, days),
    dailyUrea |-> Ratio(c.K9A + c.K9B, days),
    vcAmm  |-> IF c.caseLabel = "A" THEN vc.ammA ELSE vc.ammB,
    vcMeth |-> vc.meth,
    vcUrea |-> IF c.caseLabel = "A" THEN vc.ureaA ELSE vc.ureaB,
    y1 |-> IF c.caseLabel = "A" THEN 1 ELSE 0,
    y2 |-> IF c.caseLabel = "B1" THEN 1 ELSE 0 ]

CandResult(c, K10A, K10B, vc, i) ==
  ResultRecord(c, K10A, K10B, K7Times(c.K9A + c.K9B),
               calcGas(K10A, K10B, c.D5A, c.D5B, c.K9A, c.K9B, i.days),
               calcProfit(i.pAmm, i.pMeth, i.pUrea, vc, K10A, K10B,
                          c.D5A, c.D5B, c.K9A, c.K9B),
               vc, i.days)

MakeResult(c, i) == CandResult(c, CandK10A(c), CandK10B(c), calcVC(i.gasPrice), i)

\* Validated without the gas check of line 126; C2 does not hold of it.
ValidatedNoGas(r, i) == ~(r.K10 < 0 \/ Short(r.K10, r.K8))

\* Lines 123 and 126: the candidate with result r passes the validation of
\* evaluateAndUpdate (r.K10 - r.K8 is K11 before the max of line 133).
Validated(r, i) ==
  /\ ~(r.K10 < 0 \/ Short(r.K10, r.K8))
  /\ ~(r.gasMMSCFD > i.maxGasMMSCFD + TolGas)

\* Replaces with the comparison turned round: the incumbent is replaced by a
\* candidate of lower profit.  C7 does not hold of it.
ReplacesWhenLower(p, bestResult) ==
  bestResult = <<>> \/ WLess(WAdd(p, Dollars(0, TolProfit)), bestResult[1].profit)

\* Replaces with the comparison dropped: the first validated candidate stays.
ReplacesFirstOnly(p, bestResult) == bestResult = <<>>

\* Replaces with every validated candidate taken: the last one stays.
ReplacesAlways(p, bestResult) == TRUE

\* Line 130: a validated candidate of profit p replaces the incumbent.
Replaces(p, bestResult) ==
  bestResult = <<>> \/ WLess(WAdd(bestResult[1].profit, Dollars(0, TolProfit)), p)

\* The incumbent of the call before kept at the entry of the next call.
LeftoverBest(left) == left

\* Line 112: bestResult at the entry of a call is null, whatever the call
\* before left.
InitialBest(left) == <<>>

\* Lines 123-146: the incumbent after the candidate with result r.
Updated(bestResult, r, i) ==
  IF ~Validated(r, i) THEN bestResult
  ELSE IF Replaces(r.profit, bestResult) THEN << r >> ELSE bestResult

\* Lines 114-147.
evaluateAndUpdate(bestResult, c, i) == Updated(bestResult, MakeResult(c, i), i)

RECURSIVE EvaluateAll(_, _, _, _)
\* evaluateAndUpdate over the candidates cs[n..], in order.
EvaluateAll(bestResult, cs, n, i) ==
  IF n > Len(cs) THEN bestResult
  ELSE EvaluateAll(evaluateAndUpdate(bestResult, cs[n], i), cs, n + 1, i)

\* The concatenation of a sequence of sequences.
RECURSIVE Flatten(_)
Flatten(ss) == IF ss = <<>> THEN <<>> ELSE Head(ss) \o Flatten(Tail(ss))

(***************************************************************************)
(* The cost model of dashboard.jsx (lines 27-63): the base unit costs at   *)
(* the reference gas price and their gas components, scaled by the ratio   *)
(* of the gas price to the reference.  Unit costs in 0.00001 $/MT.         *)
(***************************************************************************)
VC_amm_base == 19860366   \* 198.60366 $/MT
VC_meth_base == 20534865  \* 205.34865 $/MT
VC_urea_base == 14631378  \* 146.31378 $/MT
gasVC_amm == 14415300     \* 144.153 $/MT
gasVC_meth == 18396300    \* 183.963 $/MT
gasVC_urea == 8050000     \* 80.5 $/MT
ammPenalty_B == 1500000   \* 15 $/MT
RefGasPrice == 50         \* the 5.0 of ratio = gasPrice / 5.0, in 0.1 $/MMBTU

\* base + gasVC * (ratio - 1) with ratio = gasPrice / 5.0: the product is
\* gasVC * (gasPrice - 5.0) / 5.0, rounded toward zero to a unit; at the
\* reference gas price ratio - 1 is exactly 0 and so is the product.
RatioCost(base, gasVC, gasPrice) ==
  IF gasPrice < RefGasPrice
    THEN base - (gasVC * (RefGasPrice - gasPrice)) \div RefGasPrice
    ELSE base + (gasVC * (gasPrice - RefGasPrice)) \div RefGasPrice

\* dashboard.jsx lines 54-63, with the field names of Dashboard.jsx.
calcVCRatio(gasPrice) ==
  [ ammA |-> RatioCost(VC_amm_base, gasVC_amm, gasPrice),
    ammB |-> RatioCost(VC_amm_base, gasVC_amm, gasPrice) + ammPenalty_B,
    meth |-> RatioCost(VC_meth_base, gasVC_meth, gasPrice),
    ureaA |-> RatioCost(VC_urea_base, gasVC_urea, gasPrice),
    ureaB |-> RatioCost(VC_urea_base, gasVC_urea, gasPrice)
                + (K7 * ammPenalty_B) \div 100 ]

(***************************************************************************)
(* The cost model and the consumption model of the YALPS variant (part_002 *)
(* lines 187-438) under the settings BASE_DEFAULTS (lines 7-117).  Prices  *)
(* of gas ($/Nm3), water ($/m3) and power ($/kWh) are in 10^-9 $; specific *)
(* consumptions in the units given; unit costs in 0.00001 $/MT.            *)
(***************************************************************************)
ammCapLoss_B == 5580000   \* 5580 MT, in 0.001 MT
SGC_amm_A == 90361000     \* 903.61 Nm3/MT, in 10^-8 Nm3 per 0.001 MT
SGC_amm_B == 101567940    \* 1015.6794 Nm3/MT
SGC_meth == 115315740     \* 1153.1574 Nm3/MT
boiler_amm == 23735800    \* 237.358 Nm3/MT
boiler_meth == 11004700   \* 110.047 Nm3/MT
boiler_urea == 10416900   \* 104.169 Nm3/MT
GT_gas_per_day == 163000  \* Nm3 per day
flare_gas_per_day == 13700    \* Nm3 per day
GT_additional_max == 67600    \* 0.676 MMSCFD, in 10^-5
NM3_to_MMSCFD == 373250000    \* 37.325, as GCV
gas_bhd_per_nm3_base == 2709  \* 0.02709 BHD/Nm3, in 10^-5
gas_base_mmbtu == 225     \* 2.25 $/MMBTU, in 1/100
bhd_to_usd == 265         \* 2.65, in 1/100
SW_slope == 142011        \* 0.00142011, in 10^-9 $ per 0.1 $/MMBTU
SW_intercept == 979890    \* 0.00097989 $/m3
FCW_slope == 252889       \* 0.00252889
FCW_intercept == 2127110  \* 0.00212711 $/m3
Demin_slope == 3343089    \* 0.03343089
Demin_intercept == -30757890  \* -0.03075789 $/m3
MEW_power_price == 77519544   \* 0.0775195445 $/kWh
amm_GT_gen == 2935        \* 293.5 MWh, in 0.1 MWh
amm_Import_gen == 1124    \* 112.4 MWh
amm_total_power_annual == 20781000    \* kWh per year
amm_prod_annual == 459788 \* MT per year
GT_nm3_per_kwh == 503     \* 0.503 Nm3/kWh, in 1/1000
amm_HP_steam == 23963     \* 2.3963 t/MT, in 10^-4
amm_HP_nm3_per_ton == 105 \* Nm3 per t of steam
amm_SW == 2259414         \* 225.9414 m3/MT, in 10^-4
amm_FCW == 1361038        \* 136.1038 m3/MT
amm_Demin == 33026        \* 3.3026 m3/MT
meth_total_power_annual == 19745300   \* kWh per year
meth_prod_annual == 445757    \* MT per year
meth_HP_steam == 84082    \* 0.8408186 t/MT, in 10^-5
meth_SW == 655065         \* 65.5065 m3/MT, in 10^-4
meth_FCW == 485531        \* 48.5531 m3/MT
meth_Demin == 13181       \* 1.3181 m3/MT
urea_amm_spec == 5696     \* 0.5696 MT/MT, in 10^-4
urea_power == 835573      \* 83.5573 kWh/MT, in 10^-4
CDR_co2 == 361942         \* 36.1942 Nm3/MT, in 10^-4
CDR_SW == 2032            \* 0.2032 m3/Nm3, in 10^-4
CDR_FCW == 42             \* 0.0042 m3/Nm3, in 10^-4
CDR_power == 762          \* 0.00762 kWh/Nm3, in 10^-5
CDR_LP_steam == 19        \* 0.0019 t/Nm3, in 10^-4
CDR_LP_669 == 669
CDR_LP_810 == 810
urea_HP_steam == 11811    \* 1.1811 t/MT, in 10^-4
urea_MP_steam == 415      \* 0.0415 t/MT, in 10^-4
MP_752_9 == 7529          \* 752.9, in 1/10
MP_809_4 == 8094          \* 809.4, in 1/10
urea_SW == 189793         \* 18.9793 m3/MT, in 10^-4
urea_FCW == 940777        \* 94.0777 m3/MT
urea_Demin == 749         \* 0.0749 m3/MT
UF85_cons == 94572        \* 0.0094572 MT/MT, in 10^-7
UF85_meth_cons == 7126    \* 0.7126 MT/MT, in 10^-4
UF85_FCW == 723776        \* 72.3776 m3/MT, in 10^-4
UF85_power == 2774354     \* 277.4354 kWh/MT, in 10^-4

\* Lines 187-189: gasPrice * (gas_bhd_per_nm3_base / gas_base_mmbtu) * bhd_to_usd,
\* in 10^-9 $/Nm3 for gasPrice in 0.1 $/MMBTU.
gasUsdPerNm3(gasPrice) ==
  ((gasPrice * gas_bhd_per_nm3_base * 100) \div gas_base_mmbtu) * bhd_to_usd * 10

\* Lines 390-392: slope * gasPrice + intercept.
UtilityPrice(slope, intercept, gasPrice) == slope * gasPrice + intercept

\* consumption * price in 0.00001 $/MT, for a consumption in 10^-k, k >= 4,
\* and a price in 10^-9 $.
Cost(price, consumption, k) ==
  IF price < 0 THEN -(MulDiv10(-price, consumption, 8) \div Pow10(k - 4))
               ELSE MulDiv10(price, consumption, 8) \div Pow10(k - 4)

\* Lines 214 and 265: importPower = totalPowerMonth / powerRatio, in kWh.
ImportPower(totalPowerAnnual) ==
  ((totalPowerAnnual \div 12) * amm_Import_gen) \div amm_GT_gen

\* Lines 215-219 and 266-270: gtCost + importCost, in 0.001 $.
PowerCost(gtPower, importPower, gasCost) ==
  WShift(WAdd(WideMulNat(MulDiv10(gasCost, GT_nm3_per_kwh, 3), gtPower),
              WideMulNat(importPower, MEW_power_price)), 6)

\* Lines 213 and 220: x / prodMonth for x in 0.001 $.
PerMonthlyTon(x, prodAnnual) ==
  (x \div prodAnnual) * 1200 + ((x % prodAnnual) * 1200) \div prodAnnual

\* Lines 209-220 and 262-271.
PowerVC(totalPowerAnnual, prodAnnual, gasCost) ==
  PerMonthlyTon(PowerCost((totalPowerAnnual \div 12) - ImportPower(totalPowerAnnual),
                          ImportPower(totalPowerAnnual), gasCost),
                prodAnnual)

\* Lines 195-244: total = gasVC + powerVC + hpSteamVC + swVC + fcwVC + deminVC.
calcAmmVC(gasCost, swPrice, fcwPrice, deminPrice) ==
  Cost(gasCost, SGC_amm_A, 5)
    + PowerVC(amm_total_power_annual, amm_prod_annual, gasCost)
    + Cost(gasCost, amm_HP_steam * amm_HP_nm3_per_ton, 4)
    + Cost(swPrice, amm_SW, 4) + Cost(fcwPrice, amm_FCW, 4)
    + Cost(deminPrice, amm_Demin, 4)

\* Lines 250-290.
calcMethVC(gasCost, swPrice, fcwPrice, deminPrice) ==
  Cost(gasCost, SGC_meth, 5)
    + PowerVC(meth_total_power_annual, meth_prod_annual, gasCost)
    + Cost(gasCost, meth_HP_steam * amm_HP_nm3_per_ton, 5)
    + Cost(swPrice, meth_SW, 4) + Cost(fcwPrice, meth_FCW, 4)
    + Cost(deminPrice, meth_Demin, 4)

\* Lines 296-380: total = ammCostComponent + powerVC + cdrSW + cdrFCW
\* + cdrPower + cdrLPSteam + hpSteamVC + mpSteamVC + swVC + fcwVC + deminVC
\* + uf85VC + uf85FCW + uf85Power.
calcUreaVC(gasCost, ammVC, methVC, swPrice, fcwPrice, deminPrice) ==
  MulDiv10(ammVC, urea_amm_spec, 4)
    + Cost(MEW_power_price, urea_power, 4)
    + Cost(swPrice, CDR_co2 * CDR_SW, 8)
    + Cost(fcwPrice, CDR_co2 * CDR_FCW, 8)
    + Cost(MEW_power_price, CDR_co2 * CDR_power, 9)
    + MulDiv10(MulDiv10(gasCost, (CDR_LP_steam * CDR_LP_669 * amm_HP_nm3_per_ton * 1000)
                                   \div CDR_LP_810, 7), CDR_co2, 8)
    + Cost(gasCost, urea_HP_steam * amm_HP_nm3_per_ton, 4)
    + Cost(gasCost, (urea_MP_steam * MP_752_9 * amm_HP_nm3_per_ton) \div MP_809_4, 4)
    + Cost(swPrice, urea_SW, 4) + Cost(fcwPrice, urea_FCW, 4)
    + Cost(deminPrice, urea_Demin, 4)
    + MulDiv10(methVC, UF85_cons * UF85_meth_cons, 8) \div 1000
    + MulDiv10(MulDiv10(fcwPrice, UF85_cons, 7), UF85_FCW, 8)
    + MulDiv10(MulDiv10(MEW_power_price, UF85_cons, 7), UF85_power, 8)

\* Lines 398-403: the unit costs returned, from the three totals.
VCRecordYalps(amm, meth, urea) ==
  [ ammA |-> amm, ammB |-> amm + ammPenalty_B, meth |-> meth,
    ureaA |-> urea, ureaB |-> urea + (K7 * ammPenalty_B) \div 100 ]

\* Lines 394-396, from the gas cost and the utility prices.
VCFromPrices(gasCost, swPrice, fcwPrice, deminPrice) ==
  VCRecordYalps(calcAmmVC(gasCost, swPrice, fcwPrice, deminPrice),
                calcMethVC(gasCost, swPrice, fcwPrice, deminPrice),
                calcUreaVC(gasCost, calcAmmVC(gasCost, swPrice, fcwPrice, deminPrice),
                           calcMethVC(gasCost, swPrice, fcwPrice, deminPrice),
                           swPrice, fcwPrice, deminPrice))

\* Lines 386-408.
calcVCYalps(gasPrice) ==
  VCFromPrices(gasUsdPerNm3(gasPrice),
               UtilityPrice(SW_slope, SW_intercept, gasPrice),
               UtilityPrice(FCW_slope, FCW_intercept, gasPrice),
               UtilityPrice(Demin_slope, Demin_intercept, gasPrice))

\* Lines 425-426: the flow of a gas volume.
GasFlowYalps(total_nm3, days) ==
  [ mmscfd_base |-> MulDiv10(total_nm3, NM3_to_MMSCFD, 8) \div days,
    total_nm3 |-> total_nm3 ]

\* A sign error in the urea boiler term: urea output credited with gas.
calcGasUreaCredit(K10, D5, K9, days, isShutdown) ==
  GasFlowYalps(MulDiv10(K10, IF isShutdown THEN SGC_amm_B ELSE SGC_amm_A, 8)
                 + MulDiv10(D5, SGC_meth, 8)
                 + GT_gas_per_day * days
                 + MulDiv10(D5, boiler_meth, 8) + MulDiv10(K10, boiler_amm, 8)
                 - MulDiv10(K9, boiler_urea, 8)
                 + flare_gas_per_day * days,
               days)

\* Lines 413-438: total_nm3 = amm_gas + meth_gas + gt_gas + boiler_gas + flare_gas.
calcGasYalps(K10, D5, K9, days, isShutdown) ==
  GasFlowYalps(MulDiv10(K10, IF isShutdown THEN SGC_amm_B ELSE SGC_amm_A, 8)
                 + MulDiv10(D5, SGC_meth, 8)
                 + GT_gas_per_day * days
                 + MulDiv10(D5, boiler_meth, 8) + MulDiv10(K10, boiler_amm, 8)
                 + MulDiv10(K9, boiler_urea, 8)
                 + flare_gas_per_day * days,
               days)

(***************************************************************************)
(* Case A (lines 154-212).                                                 *)
(***************************************************************************)
\* d5Candidates starting 1 MT below the threshold; C3 does not hold of it.
d5CandidatesBelow(i) == << R13(i) - OneMT, maxD5(i) >>

d5Candidates(i) == << R13(i), maxD5(i) >>

e5Candidates(i) == << OneMT, maxE5(i) >>

k4Candidates(i) == << OneMT, maxK4(i) >>

\* Lines 183-184 and 207: gross ammonia K10A and urea E5A pass the checks
\* made before the call.
ACheck(K10A, E5A) == ~(K10A < 0) /\ ~Short(K10A, K7Times(E5A))

\* Lines 182-185 and 206-208: the call for (D5A, E5A, K4A), or none.
CaseAVertex(D5A, E5A, K4A) ==
  IF ACheck(K4A - CAPA + AlphaTimes(D5A), E5A)
    THEN << Cand("A", D5A, 0, K4A, 0, E5A, 0) >> ELSE <<>>

\* Lines 179-188: the 2^3 vertex combinations, D5A outermost.
CaseAVertices(i) ==
  IF ~(R13(i) <= maxD5(i)) THEN <<>>
  ELSE Flatten([ n \in 1..8 |->
         CaseAVertex(d5Candidates(i)[((n - 1) \div 4) + 1],
                     e5Candidates(i)[(((n - 1) \div 2) % 2) + 1],
                     k4Candidates(i)[((n - 1) % 2) + 1]) ])

\* The test of lines 199-203 always taken: lo follows mid whatever the gas.
KeepsLoAlways(mid, K10A, D5A, E5A, i) == TRUE

\* Lines 199-203: the bisection keeps the lower half at mid.
KeepsLoA(mid, K10A, D5A, E5A, i) ==
  \/ K10A < 0
  \/ calcGas(K10A, 0, D5A, 0, E5A, 0, i.days).mmscfd <= i.maxGasMMSCFD + TolGasBisect

RECURSIVE BisectA(_, _, _, _, _, _)
\* Lines 197-204: lo after the halvings iter .. Iterations - 1.
BisectA(lo, hi, iter, D5A, E5A, i) ==
  IF iter = Iterations THEN lo
  ELSE IF KeepsLoA((lo + hi) \div 2, (lo + hi) \div 2 - CAPA + AlphaTimes(D5A),
                   D5A, E5A, i)
         THEN BisectA((lo + hi) \div 2, hi, iter + 1, D5A, E5A, i)
         ELSE BisectA(lo, (lo + hi) \div 2, iter + 1, D5A, E5A, i)

\* Lines 195-205: the K4A of the gas-binding vertex, from the initial lo.
GasK4A(lo, D5A, E5A, i) ==
  IF i.pAmm - calcVC(i.gasPrice).ammA >= 0
    THEN BisectA(lo, maxK4(i), 0, D5A, E5A, i) ELSE OneMT

\* Lines 195-209: one (D5A, E5A) of the gas-binding loop, lo its initial lo.
CaseAGasVertex(lo, D5A, E5A, i) ==
  IF lo > maxK4(i) THEN <<>>
  ELSE CaseAVertex(D5A, E5A, GasK4A(lo, D5A, E5A, i))

\* Lines 192-211.
CaseAGasBinding(i) ==
  IF ~(R13(i) <= maxD5(i)) THEN <<>>
  ELSE Flatten([ n \in 1..4 |->
         CaseAGasVertex(CAPA - AlphaTimes(d5Candidates(i)[((n - 1) \div 2) + 1]) + OneMT,
                        d5Candidates(i)[((n - 1) \div 2) + 1],
                        e5Candidates(i)[((n - 1) % 2) + 1], i) ])

(***************************************************************************)
(* Case B (lines 218-358).                                                 *)
(***************************************************************************)
maxD5B(i) == Min(Max(OneMT, R13(i) - OneMT), maxD5(i))

d5BCandidates(i) == << OneMT, maxD5B(i) >>

e5BCandidates(i) == << OneMT, maxE5(i) >>

maxK4B1(i) == Min(maxK4(i), D33(i) + CAPB)

\* Lines 242-244 and 264: the checks on K10B before a B1 call.
B1Check(K10B, E5B, i) ==
  /\ ~(K10B > D33(i) + TolMass)
  /\ ~(K10B < 0)
  /\ ~Short(K10B, K7Times(E5B))

\* Lines 263-266: the B1 call for (D5B, E5B, K4B), or none.
B1Call(D5B, E5B, K4B, i) ==
  IF B1Check(K4B - CAPB, E5B, i)
    THEN << Cand("B1", 0, D5B, 0, K4B, 0, E5B) >> ELSE <<>>

\* Lines 240-245.
B1Vertex(D5B, E5B, K4B, i) ==
  IF K4B < CAPB + OneMT \/ K4B > maxK4B1(i) THEN <<>>
  ELSE B1Call(D5B, E5B, K4B, i)

\* Lines 237-248.
CaseB1Vertices(i) ==
  Flatten([ n \in 1..8 |->
    B1Vertex(d5BCandidates(i)[((n - 1) \div 4) + 1],
             e5BCandidates(i)[(((n - 1) \div 2) % 2) + 1],
             << CAPB + OneMT, maxK4B1(i) >>[((n - 1) % 2) + 1], i) ])

RECURSIVE BisectB1(_, _, _, _, _, _)
\* Lines 255-261.
BisectB1(lo, hi, iter, D5B, E5B, i) ==
  IF iter = Iterations THEN lo
  ELSE IF calcGas(0, (lo + hi) \div 2 - CAPB, 0, D5B, 0, E5B, i.days).mmscfd
            <= i.maxGasMMSCFD + TolGasBisect
         THEN BisectB1((lo + hi) \div 2, hi, iter + 1, D5B, E5B, i)
         ELSE BisectB1(lo, (lo + hi) \div 2, iter + 1, D5B, E5B, i)

\* Lines 253-262.
GasK4B1(D5B, E5B, i) ==
  IF i.pAmm - calcVC(i.gasPrice).ammB >= 0
    THEN BisectB1(CAPB + OneMT, maxK4B1(i), 0, D5B, E5B, i)
    ELSE CAPB + OneMT

\* Lines 253-266: one (D5B, E5B) of the gas-binding loop.
CaseB1GasVertex(D5B, E5B, i) ==
  IF CAPB + OneMT > maxK4B1(i) THEN <<>>
  ELSE B1Call(D5B, E5B, GasK4B1(D5B, E5B, i), i)

\* Lines 251-268.
CaseB1GasBinding(i) ==
  Flatten([ n \in 1..4 |->
    CaseB1GasVertex(d5BCandidates(i)[((n - 1) \div 2) + 1],
                    e5BCandidates(i)[((n - 1) % 2) + 1], i) ])

minK4B2(i) == Max(CAPB + OneMT, D33(i) + CAPB + TolMass)

\* Lines 296, 308, 316, 335, 344, 351: K9B = min(E5B, C33_COEFF * K10B).
K9BOf(E5B, K10B) == Min(E5B, C33Times(K10B))

\* Lines 298-299, 317-318, 336-337, 352-353: the call with urea K9B, or none.
\* (K9B_co2 < E5B of line 337 is K9B < E5B, for K9B = min(E5B, K9B_co2).)
B2Call(D5B, E5B, K4B, K9B) ==
  IF Short(K4B - CAPB, K7Times(K9B)) THEN <<>>
  ELSE << Cand(IF K9B < E5B THEN "B2" ELSE "B1", 0, D5B, 0, K4B, 0, K9B) >>

\* Lines 291-299, 314-320, 332-337, 349-355: K10B must exceed D33.
B2Point(D5B, E5B, K4B, i) ==
  IF K4B - CAPB <= D33(i) THEN <<>>
  ELSE B2Call(D5B, E5B, K4B, K9BOf(E5B, K4B - CAPB))

\* Lines 290-299: one K4B of k4Cands.
B2Vertex(D5B, E5B, K4B, i) ==
  IF K4B < minK4B2(i) \/ K4B > maxK4(i) THEN <<>> ELSE B2Point(D5B, E5B, K4B, i)

RECURSIVE BisectB2(_, _, _, _, _, _)
\* Lines 305-312 and 341-348.
BisectB2(lo, hi, iter, D5B, E5B, i) ==
  IF iter = Iterations THEN lo
  ELSE IF calcGas(0, (lo + hi) \div 2 - CAPB, 0, D5B, 0,
                  K9BOf(E5B, (lo + hi) \div 2 - CAPB), i.days).mmscfd
            <= i.maxGasMMSCFD + TolGasBisect
         THEN BisectB2((lo + hi) \div 2, hi, iter + 1, D5B, E5B, i)
         ELSE BisectB2(lo, (lo + hi) \div 2, iter + 1, D5B, E5B, i)

\* Line 281: cmAmmB * (1 - K7 * C33_COEFF) + cmUreaB * C33_COEFF, in 10^-11.
gradK10_B2(pAmm, pUrea, vc) ==
  WAdd(WideMul(pAmm - vc.ammB, 1000000 - (K7 * C33_COEFF) \div 100),
       WideMul(pUrea - vc.ureaB, C33_COEFF))

\* Lines 303-313.
GasK4B2(D5B, E5B, i) ==
  IF WLeq(Dollars(0, 0), gradK10_B2(i.pAmm, i.pUrea, calcVC(i.gasPrice)))
    THEN BisectB2(minK4B2(i), maxK4(i), 0, D5B, E5B, i)
    ELSE minK4B2(i)

\* Lines 303-320: the gas-binding vertex of one (D5B, E5B).
B2GasVertex(D5B, E5B, i) ==
  IF minK4B2(i) > maxK4(i) THEN <<>>
  ELSE B2Point(D5B, E5B, GasK4B2(D5B, E5B, i), i)

\* Lines 286-320: one (D5B, E5B).  The continue of line 304 ends the
\* iteration, and nothing follows the gas-binding vertex in it.
B2Loop(D5B, E5B, i) ==
  B2Vertex(D5B, E5B, minK4B2(i), i) \o B2Vertex(D5B, E5B, maxK4(i), i)
    \o B2GasVertex(D5B, E5B, i)

\* Lines 284-322.
CaseB2(i) ==
  Flatten([ n \in 1..4 |->
    B2Loop(d5BCandidates(i)[((n - 1) \div 2) + 1],
           e5BCandidates(i)[((n - 1) % 2) + 1], i) ])

\* Lines 330-355: the additional search for one D5B; the continues of lines
\* 333 and 336 skip the gas-limited attempt too.
B2Additional(D5B, i) ==
  IF B2Point(D5B, maxE5(i), maxK4(i), i) = <<>> THEN <<>>
  ELSE B2Point(D5B, maxE5(i), maxK4(i), i)
         \o B2Point(D5B, maxE5(i),
                    BisectB2(minK4B2(i), maxK4(i), 0, D5B, maxE5(i), i), i)

\* Lines 329-356.
CaseB2Additional(i) ==
  B2Additional(d5BCandidates(i)[1], i) \o B2Additional(d5BCandidates(i)[2], i)

\* Every call of evaluateAndUpdate that solveLP makes, in order.
Candidates(i) ==
  CaseAVertices(i) \o CaseAGasBinding(i) \o CaseB1Vertices(i)
    \o CaseB1GasBinding(i) \o CaseB2(i) \o CaseB2Additional(i)

\* Lines 360-370: the result returned when bestResult is null.
Infeasible(vc0) ==
  [ caseLabel |-> "INFEASIBLE", profit |-> Dollars(0, 0), D5 |-> 0, K10 |-> 0,
    K9 |-> 0, K8 |-> 0, K11 |-> 0, K4 |-> 0, gasMMSCFD |-> 0, gasNm3 |-> 0,
    vcAmm |-> vc0.ammA, vcMeth |-> vc0.meth, vcUrea |-> vc0.ureaA,
    y1 |-> 0, y2 |-> 0, D5A |-> 0, D5B |-> 0, K10A |-> 0, K10B |-> 0,
    K9A |-> 0, K9B |-> 0, K4A |-> 0, K4B |-> 0,
    dailyAmm |-> Ratio(0, 1), dailyAmmProd |-> Ratio(0, 1),
    dailyMeth |-> Ratio(0, 1), dailyUrea |-> Ratio(0, 1) ]

\* Returned that never returns the incumbent; C5 does not hold of it.
ReturnedNull(bestResult, i) == Infeasible(calcVC(i.gasPrice))

\* Lines 360-372.
Returned(bestResult, i) ==
  IF bestResult = <<>> THEN Infeasible(calcVC(i.gasPrice)) ELSE bestResult[1]

solveLP(i) == Returned(EvaluateAll(<<>>, Candidates(i), 1, i), i)

\* The calls of the Case-B blocks whose methanol output is the lower bound
\* d5BCandidates[0], and what solveLP returns from these alone.
CaseBLowerBound(i) ==
  SelectSeq(CaseB1Vertices(i) \o CaseB1GasBinding(i) \o CaseB2(i)
              \o CaseB2Additional(i),
            LAMBDA c : c.D5B = d5BCandidates(i)[1])

CaseBForced(i) == Returned(EvaluateAll(<<>>, CaseBLowerBound(i), 1, i), i)

(***************************************************************************)
(* calcShutdownProfit (Dashboard.jsx lines 376-411), on the input record:  *)
(* it reads pAmm, pUrea, gasPrice, maxAmmDaily, maxUreaDaily, maxGasMMSCFD *)
(* and days.                                                               *)
(***************************************************************************)
\* Lines 386, 398, 407: the urea output priced with gross ammonia K10B.
ShutK9B(K10B, i) ==
  IF K10B <= D33(i) THEN maxE5(i) ELSE Min(maxE5(i), C33Times(K10B))

\* Lines 389 and 399: the gas flow of the shutdown plan with gross ammonia K10B.
ShutGas(K10B, i) == calcGas(0, K10B, 0, 0, 0, ShutK9B(K10B, i), i.days).mmscfd

RECURSIVE BisectShut(_, _, _, _)
\* Lines 395-402.
BisectShut(lo, hi, iter, i) ==
  IF iter = Iterations THEN lo
  ELSE IF ShutGas((lo + hi) \div 2 - CAPB, i) <= i.maxGasMMSCFD + TolGasBisect
         THEN BisectShut((lo + hi) \div 2, hi, iter + 1, i)
         ELSE BisectShut(lo, (lo + hi) \div 2, iter + 1, i)

\* Lines 383-404.
finalK4B(i) ==
  IF ShutGas(maxK4(i) - CAPB, i) > i.maxGasMMSCFD
    THEN BisectShut(CAPB + OneMT, maxK4(i), 0, i) ELSE maxK4(i)

\* Line 408.
ShutProfit(K10Bf, K9Bf, pAmm, pUrea, vc) ==
  WSub(WAdd(WideMul(pAmm - vc.ammB, K10Bf - K7Times(K9Bf)),
            WideMul(pUrea - vc.ureaB, K9Bf)),
       FC_TOTAL)

\* Lines 406-408: the plan priced, <<K10Bf, K9Bf>>.
ShutPlanAt(K10Bf, i) == << K10Bf, ShutK9B(K10Bf, i) >>

ShutPlan(i) == ShutPlanAt(finalK4B(i) - CAPB, i)

ShutProfitOf(sp, i) == ShutProfit(sp[1], sp[2], i.pAmm, i.pUrea, calcVC(i.gasPrice))

calcShutdownProfit(i) == ShutProfitOf(ShutPlan(i), i)

(***************************************************************************)
(* The shutdown sweep (Dashboard.jsx lines 562-578).  mp is in $/MT, the   *)
(* crossover in 0.00001 $/MT.                                              *)
(***************************************************************************)
GridStep == 5             \* mp += 5
GridMax == 350            \* mp <= 350
CrossThreshold == 200     \* prevDelta <= 200 && delta > 200, in $

\* 10 * w for a wide w >= 0.
WTimes10(w) == << w[1] * 10 + (w[2] * 10) \div 100000000, (w[2] * 10) % 100000000 >>

\* d * w for a wide w >= 0 and a digit d.
WScale(w, d) == << w[1] * d + (w[2] * d) \div 100000000, (w[2] * d) % 100000000 >>

\* The largest digit d with d * den <= num, for 0 <= num < 10 * den.
WDigit(num, den) == CHOOSE d \in 0..9 :
  WLeq(WScale(den, d), num) /\ (d = 9 \/ WLess(num, WScale(den, d + 1)))

RECURSIVE WRatio(_, _, _, _)
\* acc followed by the first k decimal digits of rem / den, 0 <= rem < den.
WRatio(rem, den, k, acc) ==
  IF k = 0 THEN acc
  ELSE WRatio(WSub(WTimes10(rem), WScale(den, WDigit(WTimes10(rem), den))), den,
              k - 1, acc * 10 + WDigit(WTimes10(rem), den))

\* The interpolation counted from mp instead of mp - 5.
InterpolateAhead(mp, prevDelta, delta, target) ==
  mp * 100000
    + (GridStep * WRatio(WSub(target, prevDelta), WSub(delta, prevDelta), 6, 0)) \div 10

\* Line 572: mp - 5 + 5 * (target - prevDelta) / (delta - prevDelta), for
\* prevDelta <= target < delta.
Interpolate(mp, prevDelta, delta, target) ==
  (mp - GridStep) * 100000
    + (GridStep * WRatio(WSub(target, prevDelta), WSub(delta, prevDelta), 6, 0)) \div 10

\* Line 571: the condition under which cross is assigned.
Crosses(prevDelta, delta, cross) ==
  /\ prevDelta # <<>>
  /\ WLeq(prevDelta[1], Dollars(CrossThreshold, 0))
  /\ WLess(Dollars(CrossThreshold, 0), delta)
  /\ cross = <<>>

\* Lines 571-573: cross after the grid point mp with difference delta.
NextCross(mp, prevDelta, delta, cross) ==
  IF Crosses(prevDelta, delta, cross)
    THEN << Interpolate(mp, prevDelta[1], delta, Dollars(CrossThreshold, 0)) >>
    ELSE cross

(***************************************************************************)
(* The YALPS variant (src/unnamed/part_002 lines 453-687).  solveCase      *)
(* hands the case's linear program to the library yalps and returns null   *)
(* or a result; the library is not part of the repository, so its outcome  *)
(* is any of CaseOutcomes.  The selection between the two cases and the    *)
(* fallbacks are the variant's own code.                                   *)
(***************************************************************************)
MaxYalpsProfit == 1       \* the case profits drawn are -1 .. MaxYalpsProfit dollars

\* -Infinity: below every profit.
NegInfinity == Dollars(-2147483647, 0)

LPResult(caseType, profit) ==
  [ caseType |-> caseType, D5 |-> OneMT, K10 |-> OneMT, K9 |-> OneMT,
    K8 |-> K7Times(OneMT), K11 |-> OneMT - K7Times(OneMT), K4 |-> OneMT,
    gas |-> TolGas, profit |-> Dollars(profit, 0) ]

CaseOutcomes(caseType) ==
  { <<>> } \cup { << LPResult(caseType, p) >> : p \in -1..MaxYalpsProfit }

\* part_002 lines 626-638 and 654-666: the fallback results.
YalpsInfeasible(caseType, profit) ==
  [ caseType |-> caseType, D5 |-> 0, K10 |-> 0, K9 |-> 0, K8 |-> 0, K11 |-> 0,
    K4 |-> 0, gas |-> 0, profit |-> profit ]

\* part_002 lines 646-651: best = resA, replaced by resB when B is better.
YalpsBest(resA, resB) ==
  IF resB # <<>> /\ (resA = <<>> \/ WLess(resA[1].profit, resB[1].profit))
    THEN resB ELSE resA

\* A result or, for null, the fallback.
OrElse(res, fallback) == IF res = <<>> THEN fallback ELSE res[1]

\* The selection with the forced case ignored: always the better of the two.
YalpsSelectUnforced(forceCase, resA, resB) ==
  OrElse(YalpsBest(resA, resB), YalpsInfeasible("Infeasible", Dollars(0, 0)))

\* part_002 lines 624-668.
YalpsSelect(forceCase, resA, resB) ==
  CASE forceCase = "A" -> OrElse(resA, YalpsInfeasible("Infeasible-A", NegInfinity))
    [] forceCase = "B" -> OrElse(resB, YalpsInfeasible("Infeasible-B", NegInfinity))
    [] OTHER -> OrElse(YalpsBest(resA, resB), YalpsInfeasible("Infeasible", Dollars(0, 0)))

(***************************************************************************)
(* Inputs.                                                                 *)
(***************************************************************************)
Input(pAmm, pMeth, pUrea, gasPrice, maxAmmDaily, maxMethDaily, maxUreaDaily, maxGasMMSCFD, days) ==
  [ pAmm |-> pAmm, pMeth |-> pMeth, pUrea |-> pUrea, gasPrice |-> gasPrice,
    maxAmmDaily |-> maxAmmDaily, maxMethDaily |-> maxMethDaily,
    maxUreaDaily |-> maxUreaDaily, maxGasMMSCFD |-> maxGasMMSCFD, days |-> days ]

\* The initial state of the dashboard (Dashboard.jsx lines 534-545): prices
\* 325 / 80 / 400 $/MT, gas 5 $/MMBTU, capacities 1320 / 1250 / 2150 MT/day,
\* gas ceiling 128 MMSCFD, May (31 days).
Defaults == Input(32500000, 8000000, 40000000, 50, 1320000, 1250000, 2150000,
                  12800000, 31)

MaxPriceIdx == 1          \* each price takes MaxPriceIdx + 1 values
MaxGasIdx == 2            \* the gas ceiling takes MaxGasIdx + 1 values
MaxMethIdx == 1           \* the methanol capacity takes MaxMethIdx + 1 values

\* Prices around the unit costs, gas ceilings 100, 128, 156, ... MMSCFD and
\* methanol capacities 700 (below the Case-A threshold), 1250, ... MT/day.
GridInputs ==
  { Input(19000000 + 13500000 * a, 8000000 + 22000000 * m, 10000000 + 30000000 * u,
          50, 1320000, 700000 + 550000 * c, 2150000, 10000000 + 2800000 * g, 31) :
      a \in 0..MaxPriceIdx, m \in 0..MaxPriceIdx, u \in 0..MaxPriceIdx,
      g \in 0..MaxGasIdx, c \in 0..MaxMethIdx }

\* A gas ceiling of 5 MMSCFD, below the fixed consumers.
NoGasInput ==
  Input(32500000, 8000000, 40000000, 50, 1320000, 1250000, 2150000, 500000, 31)

\* A small ammonia plant (150 MT/day) under a gas ceiling of 43 MMSCFD, at an
\* ammonia price of 190 $/MT, below the unit cost.
SmallPlantInput ==
  Input(19000000, 8000000, 40000000, 50, 150000, 1250000, 2150000, 4300000, 31)

\* The urea plant down for the period (capacity 0), all else at the defaults.
UreaDownInput == [ Defaults EXCEPT !.maxUreaDaily = 0 ]

\* The methanol plant down for the period, at a methanol price of 300 $/MT,
\* above the unit cost.
MethDownInput == [ Defaults EXCEPT !.maxMethDaily = 0, !.pMeth = 30000000 ]

\* The urea plant down, at a methanol price of 300 $/MT.
UreaDownCaseAInput == [ UreaDownInput EXCEPT !.pMeth = 30000000 ]

\* A urea capacity of 0.04 MT/day in a month of 30 days at a urea price of
\* 218.36 $/MT: urea at 1 MT and at capacity (1.2 MT) differ in profit by
\* 0.00006 $.
NearTieInput == [ Defaults EXCEPT !.maxUreaDaily = 40, !.pUrea = 21836000, !.days = 30 ]

\* The urea plant at 1000 MT/day: D33 lies below the Case-B ammonia.
UreaHalfInput == [ Defaults EXCEPT !.maxUreaDaily = 1000000 ]

\* Ammonia at 100 $/MT, below its cost, and a urea plant of 0.057 MT/day:
\* the urea of a month takes 1.007 MT of ammonia.
TinyUreaInput == [ Defaults EXCEPT !.pAmm = 10000000, !.maxUreaDaily = 57 ]

Inputs ==
  GridInputs \cup { Defaults, NoGasInput, SmallPlantInput, UreaDownInput, MethDownInput,
                    UreaDownCaseAInput, NearTieInput,
                    UreaHalfInput, TinyUreaInput }

\* The inputs whose prices are raised: the defaults under gas ceilings of
\* 100, 128 and 156 MMSCFD, and the two inputs above.
PriceInputs ==
  { Defaults, [ Defaults EXCEPT !.maxGasMMSCFD = 10000000 ],
    [ Defaults EXCEPT !.maxGasMMSCFD = 15600000 ], NoGasInput, SmallPlantInput }

Products == { "ammonia", "methanol", "urea" }

MaxRaiseIdx == 2          \* a price is raised by 0, 110, ... $/MT

RaiseStep == 11000000     \* 110 $/MT

\* The input with the price of product p raised by delta.
Raise(i, p, delta) ==
  CASE p = "ammonia"  -> [ i EXCEPT !.pAmm = @ + delta ]
    [] p = "methanol" -> [ i EXCEPT !.pMeth = @ + delta ]
    [] p = "urea"     -> [ i EXCEPT !.pUrea = @ + delta ]

\* The volume the price of product p multiplies in the profit of result r
\* (Dashboard.jsx lines 554-556: revAmm = pAmm * K11, revMeth = pMeth * D5,
\* revUrea = pUrea * K9).
Volume(r, p) ==
  CASE p = "ammonia"  -> r.K11
    [] p = "methanol" -> r.D5
    [] p = "urea"     -> r.K9

\* The inputs swept: the defaults; the defaults with a methanol capacity of
\* 700 MT/day; and a plant with a methanol capacity of 1 MT/day and a urea
\* capacity of 1500 MT/day at urea prices of 218.352 and 218.34 $/MT.
SweepInputs ==
  { Defaults, [ Defaults EXCEPT !.maxMethDaily = 700000 ],
    [ Defaults EXCEPT !.maxMethDaily = 1000, !.maxUreaDaily = 1500000,
                      !.pUrea = 21835200 ],
    [ Defaults EXCEPT !.maxMethDaily = 1000, !.maxUreaDaily = 1500000,
                      !.pUrea = 21834000 ] }

(***************************************************************************)
(* A production plan of one case, and the constraints of the case's linear *)
(* program as the comments of solveLP state them (lines 149-153, 214-217). *)
(***************************************************************************)
Plan(case, D5, K4, K9) == [ case |-> case, D5 |-> D5, K4 |-> K4, K9 |-> K9 ]

NoPlan == Plan("none", 0, 0, 0)

PlanK10(pl) ==
  IF pl.case = "A" THEN pl.K4 - CAPA + AlphaTimes(pl.D5) ELSE pl.K4 - CAPB

PlanGas(pl, K10, i) ==
  IF pl.case = "A" THEN calcGas(K10, 0, pl.D5, 0, pl.K9, 0, i.days)
                   ELSE calcGas(0, K10, 0, pl.D5, 0, pl.K9, i.days)

PlanFeasibleAt(pl, K10, i) ==
  /\ pl.case \in { "A", "B" }
  /\ 0 <= pl.K9 /\ pl.K9 <= maxE5(i)
  /\ 0 <= pl.K4 /\ pl.K4 <= maxK4(i)
  /\ 0 <= pl.D5 /\ pl.D5 <= maxD5(i)
  /\ pl.case = "A" => R13(i) <= pl.D5
  /\ pl.case = "B" => pl.D5 < R13(i)
  /\ K10 >= 0
  /\ (pl.case = "B" /\ K10 > D33(i)) => pl.K9 <= C33Times(K10)
  /\ K10 - K7Times(pl.K9) >= 0
  /\ PlanGas(pl, K10, i).mmscfd <= i.maxGasMMSCFD

PlanFeasible(pl, i) == PlanFeasibleAt(pl, PlanK10(pl), i)

PlanProfitAt(pl, K10, i) ==
  IF pl.case = "A"
    THEN calcProfit(i.pAmm, i.pMeth, i.pUrea, calcVC(i.gasPrice),
                    K10, 0, pl.D5, 0, pl.K9, 0)
    ELSE calcProfit(i.pAmm, i.pMeth, i.pUrea, calcVC(i.gasPrice),
                    0, K10, 0, pl.D5, 0, pl.K9)

PlanProfit(pl, i) == PlanProfitAt(pl, PlanK10(pl), i)

\* The largest urea output the gross ammonia K10 can feed: K7 * K9 <= K10.
StoichK9(K10) == IF K10 <= 0 THEN 0 ELSE (K10 \div K7) * 100

\* Plans at the corners of each case, the urea output at its lower bound, at
\* capacity, or where saleable ammonia reaches zero.
Plans(i) ==
  { Plan("A", D5, maxK4(i), K9) :
      D5 \in { R13(i), maxD5(i) },
      K9 \in { OneMT, maxE5(i),
               Min(maxE5(i), StoichK9(maxK4(i) - CAPA + AlphaTimes(R13(i)))) } }
  \cup
  { Plan("B", D5, maxK4(i), K9) :
      D5 \in { OneMT, maxD5B(i) },
      K9 \in { OneMT, maxE5(i), Min(maxE5(i), StoichK9(maxK4(i) - CAPB)) } }

(***************************************************************************)
(* The settings of App.tsx (lines 70-79).  BASE_DEFAULTS (part_002 lines   *)
(* 7-117) is an object of numbers only; the fields modelled are            *)
(* SettingKeys, and a user enters a value of SettingValues.                *)
(***************************************************************************)
SettingKeys == { "K7", "C33_coeff", "ammPenalty_B", "ammCapLoss_B", "GT_additional_max" }

BASE_DEFAULTS ==
  [ K7 |-> K7, C33_coeff |-> C33_COEFF, ammPenalty_B |-> ammPenalty_B,
    ammCapLoss_B |-> ammCapLoss_B, GT_additional_max |-> GT_additional_max ]

MaxSettingValue == 2      \* the values entered are 0 .. MaxSettingValue

SettingValues == 0..MaxSettingValue

\* { ...obj }: a new object with the fields of obj.
Spread(obj) == [ k \in DOMAIN obj |-> obj[k] ]

\* An update that writes the value to every field.
SpreadAllWith(prev, key, value) == [ k \in DOMAIN prev |-> value ]

\* Line 78: { ...prev, [key]: value }.
SpreadWith(prev, key, value) == [ Spread(prev) EXCEPT ![key] = value ]

(***************************************************************************)
(* The state machine.  One evaluation of solveLP takes a step per block of *)
(* candidates, in the order of the code, and a step to return.  Around it: *)
(* a single evaluation (Spec), the evaluations before and after a price is *)
(* raised (SpecPrice), and the shutdown sweep (SpecSweep).                 *)
(***************************************************************************)
VARIABLES
  variant,      \* "vertex": Dashboard.jsx; "yalps": the YALPS variant
  inp,          \* the arguments of solveLP
  pc,           \* the block solveLP is about to run
  bestResult,   \* <<>> (null) or the incumbent
  nValidated,   \* how many candidates have passed the validation so far
  result,       \* <<>> or what solveLP returned
  plan,         \* a production plan compared with the result
  forceCase,    \* YALPS variant: "A", "B" or "none"
  resA, resB,   \* YALPS variant: what solveCase returned
  before,       \* <<>> or what solveLP returned before the price was raised
  raised,       \* the product whose price was raised, and by how much
  mp,           \* sweep: the methanol price of the grid point, $/MT
  shutProfit,   \* sweep: what calcShutdownProfit returned
  prevDelta,    \* sweep: <<>> (null) or the previous point's delta
  cross,        \* sweep: <<>> (null) or the crossover price
  crossAt,      \* sweep: <<>> or <<mp, prevDelta, delta>> when cross was assigned
  data,         \* sweep: the points pushed
  args,         \* <<>> or the arguments a calculation function is called with
  out,          \* <<>> or what the calculation function returned
  todo,         \* the blocks of solveLP not yet run, when their order is free
  baseDefaults, \* the object BASE_DEFAULTS of the YALPS variant
  settings      \* App.tsx: the state settings

yalpsVars == << forceCase, resA, resB >>

priceVars == << before, raised >>

sweepVars == << mp, shutProfit, prevDelta, cross, crossAt, data >>

calcVars == << args, out >>

settingsVars == << baseDefaults, settings >>

vars == << variant, inp, pc, bestResult, nValidated, result, plan,
           yalpsVars, priceVars, sweepVars, calcVars, todo, settingsVars >>

NotRaised == [ product |-> "none", delta |-> 0 ]

\* The variables at the start of an evaluation of solveLP on input i.
Start(i) ==
  /\ inp = i
  /\ pc = "caseA_vertices"
  /\ bestResult = <<>>
  /\ nValidated = 0
  /\ result = <<>>

\* What is idle outside the YALPS variant, the price change and the sweep.
NoYalps == forceCase = "none" /\ resA = <<>> /\ resB = <<>>

NoPrice == before = <<>> /\ raised = NotRaised

NoSweep ==
  /\ mp = 0 /\ shutProfit = Dollars(0, 0) /\ prevDelta = <<>>
  /\ cross = <<>> /\ crossAt = <<>> /\ data = <<>>

NoCalc == args = <<>> /\ out = <<>> /\ todo = {}

\* App.tsx line 71: settings starts as a copy of BASE_DEFAULTS.
InitialSettings == baseDefaults = BASE_DEFAULTS /\ settings = Spread(BASE_DEFAULTS)

CountValidated(cs, i) ==
  Cardinality({ n \in 1..Len(cs) : Validated(MakeResult(cs[n], i), i) })

\* Run one block: evaluateAndUpdate on each of its candidates.
RunBlock(cs, next) ==
  /\ bestResult' = EvaluateAll(bestResult, cs, 1, inp)
  /\ nValidated' = nValidated + CountValidated(cs, inp)
  /\ pc' = next
  /\ UNCHANGED << variant, inp, result, plan, yalpsVars, priceVars, sweepVars, calcVars, todo,
                  settingsVars >>

DoCaseAVertices == pc = "caseA_vertices" /\ RunBlock(CaseAVertices(inp), "caseA_gas")

DoCaseAGasBinding == pc = "caseA_gas" /\ RunBlock(CaseAGasBinding(inp), "caseB1_vertices")

DoCaseB1Vertices == pc = "caseB1_vertices" /\ RunBlock(CaseB1Vertices(inp), "caseB1_gas")

DoCaseB1GasBinding == pc = "caseB1_gas" /\ RunBlock(CaseB1GasBinding(inp), "caseB2")

DoCaseB2 == pc = "caseB2" /\ RunBlock(CaseB2(inp), "caseB2_additional")

DoCaseB2Additional == pc = "caseB2_additional" /\ RunBlock(CaseB2Additional(inp), "return")

\* Lines 360-372.
Return ==
  /\ pc = "return"
  /\ result' = << Returned(bestResult, inp) >>
  /\ pc' = "done"
  /\ UNCHANGED << variant, inp, bestResult, nValidated, plan, yalpsVars,
                  priceVars, sweepVars, calcVars, todo, settingsVars >>

\* A plan of the case's linear program is set beside the returned solution.
ComparePlan ==
  /\ pc = "done" /\ variant = "vertex"
  /\ plan' \in Plans(inp)
  /\ pc' = "compared"
  /\ UNCHANGED << variant, inp, bestResult, nValidated, result, yalpsVars,
                  priceVars, sweepVars, calcVars, todo, settingsVars >>

\* YALPS variant, part_002 lines 624-644: the cases are solved.
YalpsSolveCases ==
  /\ pc = "solveCases"
  /\ resA' \in (IF forceCase = "B" THEN { <<>> } ELSE CaseOutcomes("A"))
  /\ resB' \in (IF forceCase = "A" THEN { <<>> } ELSE CaseOutcomes("B"))
  /\ pc' = "select"
  /\ UNCHANGED << variant, inp, bestResult, nValidated, result, plan, forceCase,
                  priceVars, sweepVars, calcVars, todo, settingsVars >>

\* YALPS variant, part_002 lines 624-668.
YalpsReturn ==
  /\ pc = "select"
  /\ result' = << YalpsSelect(forceCase, resA, resB) >>
  /\ pc' = "done"
  /\ UNCHANGED << variant, inp, bestResult, nValidated, plan, yalpsVars,
                  priceVars, sweepVars, calcVars, todo, settingsVars >>

Init ==
  /\ variant \in { "vertex", "yalps" }
  /\ \/ variant = "vertex" /\ (\E i \in Inputs : Start(i)) /\ NoYalps
     \/ /\ variant = "yalps"
        /\ inp = Defaults /\ pc = "solveCases" /\ bestResult = <<>>
        /\ nValidated = 0 /\ result = <<>>
        /\ forceCase \in { "none", "A", "B" } /\ resA = <<>> /\ resB = <<>>
  /\ plan = NoPlan
  /\ NoPrice
  /\ NoSweep
  /\ InitialSettings
  /\ NoCalc

Next ==
  \/ DoCaseAVertices
  \/ DoCaseAGasBinding
  \/ DoCaseB1Vertices
  \/ DoCaseB1GasBinding
  \/ DoCaseB2
  \/ DoCaseB2Additional
  \/ Return
  \/ ComparePlan
  \/ YalpsSolveCases
  \/ YalpsReturn

Spec == Init /\ [][Next]_vars

(***************************************************************************)
(* A price is raised (setPAmm, setPMeth, setPUrea; Dashboard.jsx lines     *)
(* 534-536) and the memo of lines 549-552 evaluates solveLP again.         *)
(***************************************************************************)
RaisePrice ==
  /\ pc = "done" /\ before = <<>>
  /\ \E p \in Products, k \in 0..MaxRaiseIdx :
       /\ raised' = [ product |-> p, delta |-> k * RaiseStep ]
       /\ inp' = Raise(inp, p, k * RaiseStep)
  /\ before' = result
  /\ pc' = "caseA_vertices"
  /\ bestResult' = InitialBest(bestResult)
  /\ nValidated' = 0
  /\ result' = <<>>
  /\ UNCHANGED << variant, plan, yalpsVars, sweepVars, calcVars, todo, settingsVars >>

\* The price is set back and the memo evaluates solveLP a third time, on the
\* arguments of the first call.
RepeatCall ==
  /\ pc = "done" /\ before # <<>> /\ raised.product \in Products
  /\ inp' = Raise(inp, raised.product, -raised.delta)
  /\ raised' = [ product |-> "restored", delta |-> raised.delta ]
  /\ pc' = "caseA_vertices"
  /\ bestResult' = InitialBest(bestResult)
  /\ nValidated' = 0
  /\ result' = <<>>
  /\ UNCHANGED << variant, plan, yalpsVars, before, sweepVars, calcVars, todo, settingsVars >>

InitPrice ==
  /\ variant = "vertex"
  /\ \E i \in PriceInputs : Start(i)
  /\ plan = NoPlan
  /\ NoYalps
  /\ NoPrice
  /\ NoSweep
  /\ InitialSettings
  /\ NoCalc

NextPrice ==
  \/ DoCaseAVertices
  \/ DoCaseAGasBinding
  \/ DoCaseB1Vertices
  \/ DoCaseB1GasBinding
  \/ DoCaseB2
  \/ DoCaseB2Additional
  \/ Return
  \/ RaisePrice
  \/ RepeatCall

SpecPrice == InitPrice /\ [][NextPrice]_vars

(***************************************************************************)
(* The shutdown sweep (Dashboard.jsx lines 562-578).                       *)
(***************************************************************************)
\* Lines 563-566 and the first solveLP call of line 569.
StartSweep ==
  /\ pc = "sweep"
  /\ shutProfit' = calcShutdownProfit(inp)
  /\ mp' = 0
  /\ inp' = [ inp EXCEPT !.pMeth = 0 ]
  /\ pc' = "caseA_vertices"
  /\ UNCHANGED << variant, bestResult, nValidated, result, plan, yalpsVars,
                  priceVars, prevDelta, cross, crossAt, data, calcVars, todo,
                  settingsVars >>

\* Lines 570-575 for the point whose solveLP has returned, with its delta,
\* and the solveLP call of the next iteration.
SweepPoint(delta) ==
  /\ cross' = NextCross(mp, prevDelta, delta, cross)
  /\ crossAt' = IF Crosses(prevDelta, delta, cross)
                  THEN << mp, prevDelta[1], delta >> ELSE crossAt
  /\ prevDelta' = << delta >>
  /\ data' = Append(data, [ mp |-> mp, run |-> result[1].profit, shut |-> shutProfit ])
  /\ mp' = mp + GridStep
  /\ IF mp + GridStep <= GridMax
       THEN /\ inp' = [ inp EXCEPT !.pMeth = (mp + GridStep) * 100000 ]
            /\ pc' = "caseA_vertices"
            /\ bestResult' = InitialBest(bestResult)
            /\ nValidated' = 0
            /\ result' = <<>>
       ELSE /\ pc' = "swept"
            /\ UNCHANGED << inp, bestResult, nValidated, result >>
  /\ UNCHANGED << variant, plan, yalpsVars, priceVars, shutProfit, calcVars, todo,
                  settingsVars >>

SweepStep == pc = "done" /\ SweepPoint(WSub(result[1].profit, shutProfit))

InitSweep ==
  /\ variant = "vertex"
  /\ inp \in SweepInputs
  /\ pc = "sweep"
  /\ bestResult = <<>>
  /\ nValidated = 0
  /\ result = <<>>
  /\ plan = NoPlan
  /\ NoYalps
  /\ NoPrice
  /\ NoSweep
  /\ InitialSettings
  /\ NoCalc

NextSweep ==
  \/ StartSweep
  \/ DoCaseAVertices
  \/ DoCaseAGasBinding
  \/ DoCaseB1Vertices
  \/ DoCaseB1GasBinding
  \/ DoCaseB2
  \/ DoCaseB2Additional
  \/ Return
  \/ SweepStep

SpecSweep == InitSweep /\ [][NextSweep]_vars

(***************************************************************************)
(* The gas sensitivity (Dashboard.jsx lines 581-588): solveLP at the gas   *)
(* prices 1, 1.5, ..., 10 $/MMBTU, everything else as entered.             *)
(***************************************************************************)
GasGridMin == 10          \* 1 $/MMBTU, in 0.1 $/MMBTU

GasGridStep == 5          \* 0.5 $/MMBTU

GasGridMax == 100         \* 10 $/MMBTU

\* The inputs whose gas price is swept: the defaults, the defaults under a
\* gas ceiling of 100 MMSCFD, and a small ammonia plant (150 MT/day, gas
\* ceiling 43 MMSCFD) at an ammonia price of 300 $/MT.
GasInputs ==
  { Defaults, [ Defaults EXCEPT !.maxGasMMSCFD = 10000000 ],
    [ SmallPlantInput EXCEPT !.pAmm = 30000000 ] }

\* Line 583, first iteration, and the solveLP call of line 584.
StartGas ==
  /\ pc = "gasSweep"
  /\ inp' = [ inp EXCEPT !.gasPrice = GasGridMin ]
  /\ pc' = "caseA_vertices"
  /\ UNCHANGED << variant, bestResult, nValidated, result, plan, yalpsVars,
                  priceVars, sweepVars, calcVars, todo, settingsVars >>

\* Line 585 for the point whose solveLP has returned (p is r.profit / 1e6:
\* the same number, read in units of 10^-14 M$), and the solveLP call of the
\* next iteration.
GasStep ==
  /\ pc = "done"
  /\ data' = Append(data, [ g |-> inp.gasPrice, p |-> result[1].profit ])
  /\ IF inp.gasPrice + GasGridStep <= GasGridMax
       THEN /\ inp' = [ inp EXCEPT !.gasPrice = @ + GasGridStep ]
            /\ pc' = "caseA_vertices"
            /\ bestResult' = InitialBest(bestResult)
            /\ nValidated' = 0
            /\ result' = <<>>
       ELSE /\ pc' = "gasSwept"
            /\ UNCHANGED << inp, bestResult, nValidated, result >>
  /\ UNCHANGED << variant, plan, yalpsVars, priceVars, mp, shutProfit,
                  prevDelta, cross, crossAt, calcVars, todo, settingsVars >>

InitGas ==
  /\ variant = "vertex"
  /\ inp \in GasInputs
  /\ pc = "gasSweep"
  /\ bestResult = <<>>
  /\ nValidated = 0
  /\ result = <<>>
  /\ plan = NoPlan
  /\ NoYalps
  /\ NoPrice
  /\ NoSweep
  /\ InitialSettings
  /\ NoCalc

NextGas ==
  \/ StartGas
  \/ DoCaseAVertices
  \/ DoCaseAGasBinding
  \/ DoCaseB1Vertices
  \/ DoCaseB1GasBinding
  \/ DoCaseB2
  \/ DoCaseB2Additional
  \/ Return
  \/ GasStep

SpecGas == InitGas /\ [][NextGas]_vars

(***************************************************************************)
(* The calculation functions called on their own: calcVC in its three      *)
(* forms (Dashboard.jsx, dashboard.jsx, part_002) and calcGas in two       *)
(* (Dashboard.jsx, part_002), once, and again with one argument raised.    *)
(***************************************************************************)
MaxGasPriceIdx == 20      \* gas prices 0, 0.5, ..., MaxGasPriceIdx / 2 $/MMBTU

MaxVolumeIdx == 1         \* each volume takes MaxVolumeIdx + 1 values

CalcVolumeStep == 12345678    \* 12345.678 MT

CalcGasPrices == { GasGridStep * k : k \in 0..MaxGasPriceIdx }

CalcVolumes == { CalcVolumeStep * k : k \in 0..MaxVolumeIdx }

\* February and May of MONTH_DAYS (Dashboard.jsx line 419).
CalcDays == { 28, 31 }

VCArgs == [ fn : { "calcVC" }, gasPrice : CalcGasPrices ]

GasArgs(v) ==
  IF v = "vertex"
    THEN [ fn : { "calcGas" }, K10A : CalcVolumes, K10B : CalcVolumes,
           D5A : CalcVolumes, D5B : CalcVolumes, K9A : CalcVolumes,
           K9B : CalcVolumes, days : CalcDays ]
    ELSE [ fn : { "calcGas" }, K10 : CalcVolumes, D5 : CalcVolumes,
           K9 : CalcVolumes, days : CalcDays, isShutdown : BOOLEAN ]

\* calcVC of the file the variant stands for.
VCOf(v, gasPrice) ==
  CASE v = "vertex" -> calcVC(gasPrice)
    [] v = "ratio"  -> calcVCRatio(gasPrice)
    [] v = "yalps"  -> calcVCYalps(gasPrice)

\* calcGas of the file the variant stands for, as <<total volume, flow>>.
GasOf(v, a) ==
  IF v = "vertex"
    THEN << calcGas(a.K10A, a.K10B, a.D5A, a.D5B, a.K9A, a.K9B, a.days).totalNm3,
            calcGas(a.K10A, a.K10B, a.D5A, a.D5B, a.K9A, a.K9B, a.days).mmscfd >>
    ELSE << calcGasYalps(a.K10, a.D5, a.K9, a.days, a.isShutdown).total_nm3,
            calcGasYalps(a.K10, a.D5, a.K9, a.days, a.isShutdown).mmscfd_base >>

\* The production variables of calcGas.
GasVariables(v) ==
  IF v = "vertex" THEN { "K10A", "K10B", "D5A", "D5B", "K9A", "K9B" }
                  ELSE { "K10", "D5", "K9" }

CallCalcVC ==
  /\ pc = "calc" /\ args.fn = "calcVC"
  /\ out' = << VCOf(variant, args.gasPrice) >>
  /\ pc' = "called"
  /\ UNCHANGED << variant, inp, bestResult, nValidated, result, plan, yalpsVars,
                  priceVars, sweepVars, args, todo, settingsVars >>

CallCalcGas ==
  /\ pc = "calc" /\ args.fn = "calcGas"
  /\ out' = << GasOf(variant, args) >>
  /\ pc' = "called"
  /\ UNCHANGED << variant, inp, bestResult, nValidated, result, plan, yalpsVars,
                  priceVars, sweepVars, args, todo, settingsVars >>

\* The function is called again at a gas price at least the first one.
RaiseGasPrice ==
  /\ pc = "called" /\ args.fn = "calcVC" /\ before = <<>>
  /\ \E g \in CalcGasPrices :
       /\ g >= args.gasPrice
       /\ args' = [ args EXCEPT !.gasPrice = g ]
       /\ raised' = [ product |-> "gasPrice", delta |-> g - args.gasPrice ]
  /\ before' = out
  /\ out' = <<>>
  /\ pc' = "calc"
  /\ UNCHANGED << variant, inp, bestResult, nValidated, result, plan, yalpsVars,
                  sweepVars, todo, settingsVars >>

\* The function is called again with one production variable raised.
RaiseVolume ==
  /\ pc = "called" /\ args.fn = "calcGas" /\ before = <<>>
  /\ \E x \in GasVariables(variant), k \in 0..MaxVolumeIdx + 1 :
       /\ args' = [ args EXCEPT ![x] = @ + k * CalcVolumeStep ]
       /\ raised' = [ product |-> x, delta |-> k * CalcVolumeStep ]
  /\ before' = out
  /\ out' = <<>>
  /\ pc' = "calc"
  /\ UNCHANGED << variant, inp, bestResult, nValidated, result, plan, yalpsVars,
                  sweepVars, todo, settingsVars >>

InitCalc ==
  /\ variant \in { "vertex", "ratio", "yalps" }
  /\ args \in VCArgs \cup (IF variant = "ratio" THEN {} ELSE GasArgs(variant))
  /\ out = <<>>
  /\ todo = {}
  /\ pc = "calc"
  /\ inp = Defaults
  /\ bestResult = <<>>
  /\ nValidated = 0
  /\ result = <<>>
  /\ plan = NoPlan
  /\ NoYalps
  /\ NoPrice
  /\ NoSweep
  /\ InitialSettings

NextCalc ==
  \/ CallCalcVC
  \/ CallCalcGas
  \/ RaiseGasPrice
  \/ RaiseVolume

SpecCalc == InitCalc /\ [][NextCalc]_vars

(***************************************************************************)
(* solveLP with the order of its evaluations left free: the six blocks of  *)
(* candidates are run in any order, the candidates of a block in the order *)
(* of the code or in the opposite one, all on the one incumbent bestResult *)
(* (Dashboard.jsx lines 112-147).                                          *)
(***************************************************************************)
Blocks ==
  { "caseA_vertices", "caseA_gas", "caseB1_vertices", "caseB1_gas", "caseB2",
    "caseB2_additional" }

BlockOf(b, i) ==
  CASE b = "caseA_vertices"    -> CaseAVertices(i)
    [] b = "caseA_gas"         -> CaseAGasBinding(i)
    [] b = "caseB1_vertices"   -> CaseB1Vertices(i)
    [] b = "caseB1_gas"        -> CaseB1GasBinding(i)
    [] b = "caseB2"            -> CaseB2(i)
    [] b = "caseB2_additional" -> CaseB2Additional(i)

Reverse(s) == [ n \in 1..Len(s) |-> s[Len(s) + 1 - n] ]

\* The inputs evaluated in any order: the defaults; the small plant, where
\* no candidate is validated; a plant with a urea capacity of 0.04 MT/day in
\* a month of 30 days at a urea price of 218.36 $/MT, where urea at 1 MT and
\* at capacity (1.2 MT) differ in profit by 0.00006 $; and one with a
\* methanol capacity of 0.04 MT/day at a methanol price of 205.35 $/MT.
OrderInputs ==
  { Defaults, SmallPlantInput,
    [ Defaults EXCEPT !.maxUreaDaily = 40, !.pUrea = 21836000, !.days = 30 ],
    [ Defaults EXCEPT !.maxMethDaily = 40, !.pMeth = 20535000, !.days = 30 ] }

\* evaluateAndUpdate on each candidate of cs, forwards or backwards.
RunInOrder(cs, backwards) ==
  /\ bestResult' = EvaluateAll(bestResult, IF backwards THEN Reverse(cs) ELSE cs, 1, inp)
  /\ nValidated' = nValidated + CountValidated(cs, inp)

RunAnyBlock ==
  /\ pc = "anyOrder" /\ todo # {}
  /\ \E b \in todo :
       /\ \E cs \in { BlockOf(b, inp) }, backwards \in BOOLEAN : RunInOrder(cs, backwards)
       /\ todo' = todo \ { b }
       /\ pc' = IF todo = { b } THEN "return" ELSE "anyOrder"
  /\ UNCHANGED << variant, inp, result, plan, yalpsVars, priceVars, sweepVars,
                  calcVars, settingsVars >>

InitOrder ==
  /\ variant = "vertex"
  /\ inp \in OrderInputs
  /\ pc = "anyOrder"
  /\ todo = Blocks
  /\ bestResult = <<>>
  /\ nValidated = 0
  /\ result = <<>>
  /\ plan = NoPlan
  /\ NoYalps
  /\ NoPrice
  /\ NoSweep
  /\ InitialSettings
  /\ args = <<>> /\ out = <<>>

NextOrder ==
  \/ RunAnyBlock
  \/ Return

SpecOrder == InitOrder /\ [][NextOrder]_vars

(***************************************************************************)
(* The shutdown sweep of App.tsx (lines 87-116), over solveLP of the YALPS *)
(* variant.  The library decides what solveCase returns for a case at a    *)
(* grid point: resA and resB are its outcomes for the two cases, with      *)
(* profits around the shutdown profit, where the crossover is decided.     *)
(* The call of line 107 forces case A and runs solveCase for A alone.      *)
(***************************************************************************)
FC_total == Dollars(8279075, 12000000)

MaxAppIdx == 1            \* the grid is mp = 0, 5, ..., 5 * MaxAppIdx (350 in the code)

\* -Infinity - x and NaN, which the differences of line 108 and the
\* interpolation of line 110 can produce.
NaN == -1

\* Lines 94-99.
AppShutProfit(K10_shut, K9_shut, pAmm, pUrea, vc) ==
  WSub(WAdd(WideMul(pAmm - vc.ammB, K10_shut - K7Times(K9_shut)),
            WideMul(pUrea - vc.ureaB, K9_shut)),
       FC_total)

\* Lines 88-99: shutdownProfit.
AppShutdownProfit(i) ==
  AppShutProfit(maxK4(i) - ammCapLoss_B,
                Min(maxE5(i), C33Times(maxK4(i) - ammCapLoss_B)),
                i.pAmm, i.pUrea, calcVCYalps(i.gasPrice))

\* What solveCase can return for a case: null, or a result whose profit is
\* the shutdown profit plus -1 .. MaxYalpsProfit dollars.
AppOutcomes(caseType, shut) ==
  { <<>> } \cup { << [ LPResult(caseType, p) EXCEPT !.profit = WAdd(shut, Dollars(p, 0)) ] >> :
                    p \in -1..MaxYalpsProfit }

\* Line 108: r.profit - shutdownProfit.
AppDiff(profit, shut) == IF profit = NegInfinity THEN NegInfinity ELSE WSub(profit, shut)

\* Line 109: the condition under which crossover is assigned.
AppCrosses(prevDiff, diff, crossover) ==
  /\ prevDiff # <<>>
  /\ WLeq(prevDiff[1], Dollars(0, 0))
  /\ WLess(Dollars(0, 0), diff)
  /\ crossover = <<>>

\* Lines 109-111: crossover after the grid point mp.
AppNextCross(m, prevDiff, diff, crossover) ==
  IF ~AppCrosses(prevDiff, diff, crossover) THEN crossover
  ELSE IF prevDiff[1] = NegInfinity THEN << NaN >>
  ELSE << Interpolate(m, prevDiff[1], diff, Dollars(0, 0)) >>

AppInputs == { Defaults, [ Defaults EXCEPT !.gasPrice = 80 ], SmallPlantInput }

\* Lines 88-103: the shutdown profit, and the loop entered at mp = 0.
AppStartSweep ==
  /\ pc = "app"
  /\ shutProfit' = AppShutdownProfit(inp)
  /\ mp' = 0
  /\ inp' = [ inp EXCEPT !.pMeth = 0 ]
  /\ pc' = "app_point"
  /\ UNCHANGED << variant, bestResult, nValidated, result, plan, yalpsVars,
                  priceVars, prevDelta, cross, crossAt, data, calcVars, todo,
                  settingsVars >>

\* The library's outcomes for the two cases at the grid point.  The rows of
\* a case's program do not depend on the methanol price (part_002 lines
\* 508-526), so a case that has a solution at one grid point has one at
\* every grid point.
AppSolveCase ==
  /\ pc = "app_point"
  /\ resA' \in AppOutcomes("A", shutProfit)
  /\ resB' \in AppOutcomes("B", shutProfit)
  /\ data # <<>> => ((resA' = <<>>) <=> (resA = <<>>)) /\ ((resB' = <<>>) <=> (resB = <<>>))
  /\ pc' = "app_solved"
  /\ UNCHANGED << variant, inp, bestResult, nValidated, result, plan, forceCase,
                  priceVars, sweepVars, calcVars, todo, settingsVars >>

\* Lines 107-113 for the result r of the forced call, and the loop's step.
AppRecord(r) ==
  /\ result' = << r >>
  /\ cross' = AppNextCross(mp, prevDelta, AppDiff(r.profit, shutProfit), cross)
  /\ crossAt' = IF AppCrosses(prevDelta, AppDiff(r.profit, shutProfit), cross)
                  THEN << mp, prevDelta[1], AppDiff(r.profit, shutProfit) >> ELSE crossAt
  /\ prevDelta' = << AppDiff(r.profit, shutProfit) >>
  /\ data' = Append(data, [ mp |-> mp, run |-> r.profit, shut |-> shutProfit ])
  /\ mp' = mp + GridStep
  /\ IF mp + GridStep <= MaxAppIdx * GridStep
       THEN inp' = [ inp EXCEPT !.pMeth = (mp + GridStep) * 100000 ] /\ pc' = "app_point"
       ELSE inp' = inp /\ pc' = "swept"
  /\ UNCHANGED << variant, bestResult, nValidated, plan, yalpsVars, priceVars,
                  shutProfit, calcVars, todo, settingsVars >>

AppSweepPoint == pc = "app_solved" /\ AppRecord(YalpsSelect(forceCase, resA, resB))

InitApp ==
  /\ variant = "yalps"
  /\ inp \in AppInputs
  /\ pc = "app"
  /\ bestResult = <<>>
  /\ nValidated = 0
  /\ result = <<>>
  /\ plan = NoPlan
  /\ forceCase = "A" /\ resA = <<>> /\ resB = <<>>
  /\ NoPrice
  /\ NoSweep
  /\ InitialSettings
  /\ NoCalc

NextApp ==
  \/ AppStartSweep
  \/ AppSolveCase
  \/ AppSweepPoint

SpecApp == InitApp /\ [][NextApp]_vars

(***************************************************************************)
(* solveGPICWithGLPK (App.tsx lines 799-1108).  The function builds a      *)
(* mixed-integer program, hands it to the library glpk, and computes its   *)
(* result from the assignment the library returns.  The library is not     *)
(* part of the repository: it returns status OPT only with an assignment   *)
(* that satisfies every row and bound, and a status other than OPT, with   *)
(* any assignment, when the program has no feasible assignment.            *)
(***************************************************************************)
SGA == 90361000           \* 903.61 Nm3/MT, in 10^-8 Nm3 per 0.001 MT
SGB == 101567940          \* 1015.6794
SGM == 115315740          \* 1153.1574
BM == 11004650            \* 110.0465
BA == 23735830            \* 237.3583
BU == 10416890            \* 104.1689
AI == 1466000             \* 0.1466, in 10^-7 $/MT
AS == 398983000           \* 39.8983, in 10^-7 $/MT per $/MMBTU
MI == -76253000           \* -7.6253
MS == 428763000           \* 42.8763
UI == 146838000           \* 14.6838
US == 264605000           \* 26.4605

\* Lines 820-824.
GlpkVC(gasPrice) ==
  VCRecord(SlopeTimes(AI, AS, gasPrice), SlopeTimes(MI, MS, gasPrice),
           SlopeTimes(UI, US, gasPrice))

GlpkAssignment(D5_A, E5_A, K4_A, D5_B, E5_B, K4_B, K9_B, y1, K10_A_aux, K10_B_aux) ==
  [ D5_A |-> D5_A, E5_A |-> E5_A, K4_A |-> K4_A, D5_B |-> D5_B, E5_B |-> E5_B,
    K4_B |-> K4_B, K9_B |-> K9_B, y1 |-> y1, K10_A_aux |-> K10_A_aux,
    K10_B_aux |-> K10_B_aux ]

\* Lines 851-889: c_D5A_min, c_D5A_max, c_E5A_max, c_K4A_max.
GlpkCaseARows(a, i) ==
  /\ a.D5_A - R13(i) * a.y1 >= 0
  /\ a.D5_A - maxD5(i) * a.y1 <= 0
  /\ a.E5_A - maxE5(i) * a.y1 <= 0
  /\ a.K4_A - maxK4(i) * a.y1 <= 0

\* Lines 895-923: c_D5B_max, c_K4B_max, c_E5B_max.
GlpkCaseBRows(a, i) ==
  /\ a.D5_B + (R13(i) - OneMT) * a.y1 <= R13(i) - OneMT
  /\ a.K4_B + maxK4(i) * a.y1 <= maxK4(i)
  /\ a.E5_B + maxE5(i) * a.y1 <= maxE5(i)

\* Lines 929-957: c_K4_total, c_D5_total, c_E5_total.
GlpkCapacityRows(a, i) ==
  /\ a.K4_A + a.K4_B <= maxK4(i)
  /\ a.D5_A + a.D5_B <= maxD5(i)
  /\ a.E5_A + a.E5_B <= maxE5(i)

\* Lines 963-982: c_K10A_def, c_K10B_def.
GlpkDefRows(a) ==
  /\ a.K10_A_aux - a.K4_A - AlphaTimes(a.D5_A) = -CAPA
  /\ a.K10_B_aux - a.K4_B = -CAPB

\* Lines 993-1004: the gas volume of the row c_gas_limit, GT and FL moved to
\* the left.
GlpkRowGas(a) ==
  MulDiv10(a.K10_A_aux, SGA + BA, 8) + MulDiv10(a.K10_B_aux, SGB + BA, 8)
    + MulDiv10(a.D5_A, SGM + BM + (BU * K7) \div 100, 8)
    + MulDiv10(a.D5_B, SGM + BM, 8)
    + MulDiv10(a.E5_A + a.K9_B, (BU * K7) \div 100, 8) + GT + FL

\* Lines 993-1017: c_gas_limit, c_co2_ceiling_b.
GlpkSharedRows(a, i) ==
  /\ GasFlow(GlpkRowGas(a), i.days).mmscfd <= i.maxGasMMSCFD
  /\ a.K9_B - C33Times(a.K10_B_aux) <= C33Times(CAPB)

\* Lines 1025-1037: every variable >= 0, y1 binary.
GlpkBounds(a) ==
  /\ a.D5_A >= 0 /\ a.E5_A >= 0 /\ a.K4_A >= 0 /\ a.D5_B >= 0 /\ a.E5_B >= 0
  /\ a.K4_B >= 0 /\ a.K9_B >= 0 /\ a.K10_A_aux >= 0 /\ a.K10_B_aux >= 0
  /\ a.y1 \in { 0, 1 }

\* The assignment a satisfies the program built for input i.
GlpkSatisfies(a, i) ==
  /\ GlpkCaseARows(a, i) /\ GlpkCaseBRows(a, i) /\ GlpkCapacityRows(a, i)
  /\ GlpkDefRows(a) /\ GlpkSharedRows(a, i) /\ GlpkBounds(a)

\* The largest K10_A_aux the rows c_D5A_max, c_K4A_max and c_K10A_def allow
\* for a value y1 of the binary, and the largest K10_B_aux the rows
\* c_K4B_max and c_K10B_def allow.
GlpkMaxK10A(y1, i) == maxK4(i) * y1 + AlphaTimes(maxD5(i) * y1) - CAPA

GlpkMaxK10B(y1, i) == maxK4(i) * (1 - y1) - CAPB

\* No assignment satisfies the program: for each value of y1 one of the two
\* auxiliaries is forced below its lower bound 0.
GlpkNoFeasible(i) ==
  \A y1 \in { 0, 1 } : GlpkMaxK10A(y1, i) < 0 \/ GlpkMaxK10B(y1, i) < 0

\* The vertices of the box the rows span, with each auxiliary at the value
\* its defining row gives or at its lower bound.
GlpkGrid(i) ==
  { GlpkAssignment(D5_A, E5_A, K4_A, D5_B, E5_B, K4_B, K9_B, y1, K10_A_aux, K10_B_aux) :
      D5_A \in { 0, R13(i), maxD5(i) }, E5_A \in { 0, maxE5(i) },
      K4_A \in { 0, maxK4(i) }, D5_B \in { 0, R13(i) - OneMT },
      E5_B \in { 0 }, K4_B \in { 0, maxK4(i) }, K9_B \in { 0, maxE5(i) },
      y1 \in { 0, 1 }, K10_A_aux \in { 0, maxK4(i) - CAPA },
      K10_B_aux \in { 0, maxK4(i) - CAPB } }

\* Lines 1066-1071: the gas flow reported.
GlpkGas(a, days) ==
  GasFlow(MulDiv10(a.K10_A_aux, SGA, 8) + MulDiv10(a.K10_B_aux, SGB, 8)
            + MulDiv10(a.D5_A + a.D5_B, SGM, 8) + GT
            + MulDiv10(a.D5_A + a.D5_B, BM, 8)
            + MulDiv10(a.K10_A_aux + a.K10_B_aux, BA, 8)
            + MulDiv10(a.E5_A + a.K9_B, BU, 8) + FL,
          days).mmscfd

\* Lines 1060-1062 and 1074-1076: profitA + profitB - FC, with K11 the
\* saleable ammonia of both cases.
GlpkProfit(a, K11, pAmm, pMeth, pUrea, vc) ==
  WSub(WAdd(WAdd(WAdd(WideMul(pAmm - vc.ammA, K11), WideMul(pMeth - vc.meth, a.D5_A)),
                 WideMul(pUrea - vc.ureaA, a.E5_A)),
            WAdd(WAdd(WideMul(pAmm - vc.ammB, a.K10_B_aux - K7Times(a.K9_B)),
                      WideMul(pMeth - vc.meth, a.D5_B)),
                 WideMul(pUrea - vc.ureaB, a.K9_B))),
       FC_TOTAL)

\* Math.round of a wide number, in whole dollars.
RoundDollars(w) == IF w[2] >= 50000000 THEN w[1] + 1 ELSE w[1]

\* Lines 1047-1103: the record returned for the assignment a and the status.
GlpkResult(a, status, i) ==
  [ caseId |-> IF a.y1 = 1 THEN "A" ELSE "B", y1 |-> a.y1,
    profit |-> RoundDollars(GlpkProfit(a,
                 Max(0, a.K10_A_aux + a.K10_B_aux - K7Times(a.E5_A + a.K9_B)),
                 i.pAmm, i.pMeth, i.pUrea, GlpkVC(i.gasPrice))),
    K10 |-> Max(0, a.K10_A_aux + a.K10_B_aux), K9 |-> Max(0, a.E5_A + a.K9_B),
    K8 |-> K7Times(a.E5_A + a.K9_B),
    K11 |-> Max(0, a.K10_A_aux + a.K10_B_aux - K7Times(a.E5_A + a.K9_B)),
    D5 |-> Max(0, a.D5_A + a.D5_B), gas |-> GlpkGas(a, i.days),
    solverStatus |-> IF status = "OPT" THEN "OPTIMAL" ELSE "SUBOPTIMAL" ]

GlpkInputs == { Defaults, SmallPlantInput, [ Defaults EXCEPT !.gasPrice = 80 ] }

\* Line 1041: glpk.solve.
GlpkSolve ==
  /\ pc = "glpk_solve"
  /\ \E a \in GlpkGrid(inp), status \in { "OPT", "NOFEAS" } :
       /\ status = "OPT" => GlpkSatisfies(a, inp)
       /\ status = "NOFEAS" => GlpkNoFeasible(inp)
       /\ args' = << a >>
       /\ out' = << status >>
  /\ pc' = "glpk_solved"
  /\ UNCHANGED << variant, inp, bestResult, nValidated, result, plan, yalpsVars,
                  priceVars, sweepVars, todo, settingsVars >>

\* Lines 1043-1103.
GlpkReturn ==
  /\ pc = "glpk_solved"
  /\ result' = << GlpkResult(args[1], out[1], inp) >>
  /\ pc' = "done"
  /\ UNCHANGED << variant, inp, bestResult, nValidated, plan, yalpsVars,
                  priceVars, sweepVars, calcVars, todo, settingsVars >>

InitGlpk ==
  /\ variant = "glpk"
  /\ inp \in GlpkInputs
  /\ pc = "glpk_solve"
  /\ bestResult = <<>>
  /\ nValidated = 0
  /\ result = <<>>
  /\ plan = NoPlan
  /\ NoYalps
  /\ NoPrice
  /\ NoSweep
  /\ InitialSettings
  /\ NoCalc

NextGlpk ==
  \/ GlpkSolve
  \/ GlpkReturn

SpecGlpk == InitGlpk /\ [][NextGlpk]_vars

(***************************************************************************)
(* The settings of App.tsx: updateSetting and resetSettings, in any order. *)
(* before is the state settings had when the callback ran, args the key    *)
(* and the value of an update.                                             *)
(***************************************************************************)
\* Lines 77-79.
updateSetting(key, value) ==
  /\ pc \in { "settings", "updated", "reset" }
  /\ settings' = SpreadWith(settings, key, value)
  /\ before' = << settings >>
  /\ args' = << key, value >>
  /\ pc' = "updated"
  /\ UNCHANGED << variant, inp, bestResult, nValidated, result, plan, yalpsVars,
                  raised, sweepVars, out, todo, baseDefaults >>

\* Lines 73-75.
resetSettings ==
  /\ pc \in { "settings", "updated", "reset" }
  /\ settings' = Spread(baseDefaults)
  /\ before' = << settings >>
  /\ args' = <<>>
  /\ pc' = "reset"
  /\ UNCHANGED << variant, inp, bestResult, nValidated, result, plan, yalpsVars,
                  raised, sweepVars, out, todo, baseDefaults >>

InitSettings ==
  /\ variant = "yalps"
  /\ inp = Defaults
  /\ pc = "settings"
  /\ bestResult = <<>>
  /\ nValidated = 0
  /\ result = <<>>
  /\ plan = NoPlan
  /\ NoYalps
  /\ NoPrice
  /\ NoSweep
  /\ InitialSettings
  /\ NoCalc

NextSettings ==
  \/ \E key \in SettingKeys, value \in SettingValues : updateSetting(key, value)
  \/ resetSettings

SpecSettings == InitSettings /\ [][NextSettings]_vars

(***************************************************************************)
(* The gas-ceiling bisections of solveLP (Dashboard.jsx lines 195-204,     *)
(* 255-261, 305-312 and 341-348), one halving a step.  args holds the      *)
(* bisection: its kind, the candidate pair, the endpoints it started from  *)
(* (lo0, hi0), the current lo and hi, and iter.                            *)
(***************************************************************************)
BisectKinds == { "A", "B1", "B2", "B2add" }

\* The gas flow of the plan the bisection of this kind tests at K4 = mid.
BisectGas(kind, mid, D5, E5, i) ==
  CASE kind = "A" ->
         calcGas(mid - CAPA + AlphaTimes(D5), 0, D5, 0, E5, 0, i.days).mmscfd
    [] kind = "B1" -> calcGas(0, mid - CAPB, 0, D5, 0, E5, i.days).mmscfd
    [] OTHER ->
         calcGas(0, mid - CAPB, 0, D5, 0, K9BOf(E5, mid - CAPB), i.days).mmscfd

\* Lines 199-203, 259-260, 310-311, 346-347: lo = mid, else hi = mid.
KeepsLo(kind, mid, D5, E5, i) ==
  IF kind = "A"
    THEN KeepsLoA(mid, mid - CAPA + AlphaTimes(D5), D5, E5, i)
    ELSE BisectGas(kind, mid, D5, E5, i) <= i.maxGasMMSCFD + TolGasBisect

\* Lines 195, 255, 305, 341: the endpoints a bisection starts from.
BisectLo(kind, D5, i) ==
  CASE kind = "A" -> CAPA - AlphaTimes(D5) + OneMT
    [] kind = "B1" -> CAPB + OneMT
    [] OTHER -> minK4B2(i)

BisectHi(kind, i) == IF kind = "B1" THEN maxK4B1(i) ELSE maxK4(i)

\* The candidate pairs (D5, E5) whose loop iteration reaches the bisection:
\* lines 192-196, 252-256, 286-306 (if (lo > hi) continue) and 329-341 (no
\* such test, after the continues of lines 333 and 336).
BisectPairs(kind, i) ==
  CASE kind = "A" ->
         { << d5Candidates(i)[m], e5Candidates(i)[n] >> : m, n \in 1..2 }
    [] kind = "B2add" -> { << d5BCandidates(i)[m], maxE5(i) >> : m \in 1..2 }
    [] OTHER -> { << d5BCandidates(i)[m], e5BCandidates(i)[n] >> : m, n \in 1..2 }

BisectReached(kind, D5, E5, i) ==
  CASE kind = "A" -> R13(i) <= maxD5(i) /\ BisectLo(kind, D5, i) <= BisectHi(kind, i)
    [] kind = "B2add" -> B2Point(D5, E5, maxK4(i), i) # <<>>
    [] OTHER -> BisectLo(kind, D5, i) <= BisectHi(kind, i)

Bisection(kind, D5, E5, lo, hi) ==
  [ kind |-> kind, D5 |-> D5, E5 |-> E5, lo0 |-> lo, hi0 |-> hi,
    lo |-> lo, hi |-> hi, iter |-> 0 ]

\* The state of the bisection b after one more halving.
Halved(b, keepsLo) ==
  [ b EXCEPT !.lo = IF keepsLo THEN (b.lo + b.hi) \div 2 ELSE b.lo,
             !.hi = IF keepsLo THEN b.hi ELSE (b.lo + b.hi) \div 2,
             !.iter = b.iter + 1 ]

BisectInputs ==
  { Defaults, [ Defaults EXCEPT !.maxGasMMSCFD = 10000000 ], SmallPlantInput,
    UreaDownInput }

\* let lo = ..., hi = ...; if (lo > hi) continue.
BisectStart ==
  /\ pc = "bisect_start"
  /\ \E kind \in BisectKinds :
       \E pair \in BisectPairs(kind, inp) :
         /\ BisectReached(kind, pair[1], pair[2], inp)
         /\ args' = << Bisection(kind, pair[1], pair[2], BisectLo(kind, pair[1], inp),
                                 BisectHi(kind, inp)) >>
  /\ pc' = "bisect"
  /\ UNCHANGED << variant, inp, bestResult, nValidated, result, plan, yalpsVars,
                  priceVars, sweepVars, out, todo, settingsVars >>

\* One iteration of the for loop.
BisectHalve ==
  /\ pc = "bisect"
  /\ args[1].iter < Iterations
  /\ args' = << Halved(args[1], KeepsLo(args[1].kind, (args[1].lo + args[1].hi) \div 2,
                                        args[1].D5, args[1].E5, inp)) >>
  /\ UNCHANGED << variant, inp, pc, bestResult, nValidated, result, plan, yalpsVars,
                  priceVars, sweepVars, out, todo, settingsVars >>

\* The loop ends: iter < 60 is false.
BisectExit ==
  /\ pc = "bisect"
  /\ ~(args[1].iter < Iterations)
  /\ out' = << args[1].lo >>
  /\ pc' = "bisected"
  /\ UNCHANGED << variant, inp, bestResult, nValidated, result, plan, yalpsVars,
                  priceVars, sweepVars, args, todo, settingsVars >>

InitBisect ==
  /\ variant = "vertex"
  /\ inp \in BisectInputs
  /\ pc = "bisect_start"
  /\ bestResult = <<>>
  /\ nValidated = 0
  /\ result = <<>>
  /\ plan = NoPlan
  /\ NoYalps
  /\ NoPrice
  /\ NoSweep
  /\ InitialSettings
  /\ NoCalc

NextBisect ==
  \/ BisectStart
  \/ BisectHalve
  \/ BisectExit

SpecBisect == InitBisect /\ [][NextBisect]_vars

(***************************************************************************)
(* makeResult of the YALPS variant (part_002 lines 591-623) on what the    *)
(* library returns to solveCase.  The library is not part of the           *)
(* repository: a solution it reports as optimal is drawn from a grid of    *)
(* amounts within the capacities, and since its tolerance on the gas row   *)
(* is not known that row is not assumed of the solution.                   *)
(***************************************************************************)

\* The additional gas always added in full, whatever the headroom.
applyGTUncapped(mmscfd_base, maxGas, s) == mmscfd_base + s.GT_additional_max

\* Lines 440-446.
applyGTAdditional(mmscfd_base, maxGas, s) ==
  IF maxGas - mmscfd_base > 0
    THEN mmscfd_base + Min(maxGas - mmscfd_base, s.GT_additional_max)
    ELSE mmscfd_base

\* Line 604: gasAfterGT > maxGas * 1.001, in whole units of gas flow.
AboveHardLimit(gasAfterGT, maxGas) == gasAfterGT - maxGas > maxGas \div 1000

\* Line 606.
ProfitYalps(K11, D5, K9, vcAmm, vcUrea, vcMeth, i) ==
  WSub(WAdd(WAdd(WideMul(i.pAmm - vcAmm, K11), WideMul(i.pMeth - vcMeth, D5)),
            WideMul(i.pUrea - vcUrea, K9)),
       FC_total)

\* Lines 608-622: the result object, for the gas flow computed.
ResultYalps(caseType, D5, K10, K9, K4, gasCalc, gasAfterGT, profit, i) ==
  [ caseType |-> caseType, D5 |-> D5, K10 |-> K10, K9 |-> K9, K8 |-> K7Times(K9),
    K11 |-> K10 - K7Times(K9), K4 |-> K4, gas |-> gasAfterGT,
    gasBeforeGT |-> gasCalc.mmscfd_base, gasTotal_nm3 |-> gasCalc.total_nm3,
    profit |-> profit, dailyAmm |-> K10 \div i.days, dailyMeth |-> D5 \div i.days,
    dailyUrea |-> K9 \div i.days ]

\* Lines 597-623, with the gas flow before and after applyGTAdditional.
MakeWithGas(caseType, D5, K10, K9, K4, gasCalc, gasAfterGT, vcAmm, vcUrea, vcMeth, i) ==
  IF AboveHardLimit(gasAfterGT, i.maxGasMMSCFD) THEN <<>>
  ELSE << ResultYalps(caseType, D5, K10, K9, K4, gasCalc, gasAfterGT,
                      ProfitYalps(K10 - K7Times(K9), D5, K9, vcAmm, vcUrea, vcMeth, i),
                      i) >>

MakeWithBase(caseType, D5, K10, K9, K4, gasCalc, vcAmm, vcUrea, vcMeth, i, s) ==
  MakeWithGas(caseType, D5, K10, K9, K4, gasCalc,
              applyGTAdditional(gasCalc.mmscfd_base, i.maxGasMMSCFD, s),
              vcAmm, vcUrea, vcMeth, i)

makeResultYalps(caseType, D5, K10, K9, K4, isShutdown, vc, i, s) ==
  MakeWithBase(caseType, D5, K10, K9, K4, calcGasYalps(K10, D5, K9, i.days, isShutdown),
               IF isShutdown THEN vc.ammB ELSE vc.ammA,
               IF isShutdown THEN vc.ureaB ELSE vc.ureaA, vc.meth, i, s)

\* The amounts (amm_sale, meth, urea) the library can report as optimal.
AmmSaleStep == 15000000   \* ammonia for sale is 0, 15000 or 30000 MT
MaxAmmSaleIdx == 2

YalpsSolutions(i) ==
  { << a * AmmSaleStep, m, u >> :
      a \in 0..MaxAmmSaleIdx,
      m \in { 0, (6 * maxD5(i)) \div 10, maxD5(i) },
      u \in { 0, maxE5(i) } }

\* The values of GT_additional_max entered in the settings panel.
GTAdditionalValues == { -GT_additional_max, 0, GT_additional_max }

\* Gas ceilings of 128, 126.5 and 123.1 MMSCFD: the last two lie 0.42 MMSCFD
\* above and 0.013 MMSCFD below the base flow of a solution drawn.
MakeInputs ==
  { Defaults, [ Defaults EXCEPT !.maxGasMMSCFD = 12650000 ],
    [ Defaults EXCEPT !.maxGasMMSCFD = 12310000 ] }

\* Lines 560-589 and 597-623: solveCase after solve(model) has returned.
\* args keeps the base flow and the flow after applyGTAdditional.
SolveCaseMake ==
  /\ pc = "make"
  /\ \E caseType \in { "A", "B" } :
       \E status \in { "optimal", "infeasible" } :
         \E v \in YalpsSolutions(inp) :
           IF status # "optimal"
             THEN /\ out' = <<>>
                  /\ args' = <<>>
                  /\ v = << 0, 0, 0 >>
             ELSE /\ out' = makeResultYalps(caseType, v[2], v[1] + K7Times(v[3]), v[3],
                                            maxK4(inp), caseType = "B",
                                            calcVCYalps(inp.gasPrice), inp, settings)
                  /\ args' = << calcGasYalps(v[1] + K7Times(v[3]), v[2], v[3], inp.days,
                                             caseType = "B").mmscfd_base,
                                applyGTAdditional(
                                  calcGasYalps(v[1] + K7Times(v[3]), v[2], v[3], inp.days,
                                               caseType = "B").mmscfd_base,
                                  inp.maxGasMMSCFD, settings) >>
  /\ pc' = "made"
  /\ UNCHANGED << variant, inp, bestResult, nValidated, result, plan, yalpsVars,
                  priceVars, sweepVars, todo, settingsVars >>

InitMake ==
  /\ variant = "yalps"
  /\ inp \in MakeInputs
  /\ pc = "make"
  /\ bestResult = <<>>
  /\ nValidated = 0
  /\ result = <<>>
  /\ plan = NoPlan
  /\ NoYalps
  /\ NoPrice
  /\ NoSweep
  /\ baseDefaults = BASE_DEFAULTS
  /\ settings \in { SpreadWith(BASE_DEFAULTS, "GT_additional_max", v) :
                      v \in GTAdditionalValues }
  /\ NoCalc

NextMake == SolveCaseMake

SpecMake == InitMake /\ [][NextMake]_vars

(***************************************************************************)
(* The shutdown sweep of dashboard.jsx (generateShutdownData, lines        *)
(* 158-203).  Its solveLP (lines 80-152) searches a grid of plans and      *)
(* returns the best of them, or the Infeasible result of profit 0 (line    *)
(* 151): the profit it returns at a grid point is drawn, the shutdown      *)
(* profit plus -1 .. MaxYalpsProfit dollars around which the crossover is  *)
(* decided, or 0.                                                          *)
(***************************************************************************)
MaxGridIdx == 3           \* the grid is mp = 0, 5, ..., 5 * MaxGridIdx (350 in the code)

\* Lines 160-173.
GridShutdownProfit(i) ==
  AppShutProfit(maxK4(i) - ammCapLoss_B,
                Min(maxE5(i), C33Times(maxK4(i) - ammCapLoss_B)),
                i.pAmm, i.pUrea, calcVCRatio(i.gasPrice))

GridProfits(shut) ==
  { Dollars(0, 0) } \cup { WAdd(shut, Dollars(p, 0)) : p \in -1..MaxYalpsProfit }

\* Lines 160-177: the shutdown profit, and the loop entered at mp = 0.
GridStartSweep ==
  /\ pc = "grid"
  /\ shutProfit' = GridShutdownProfit(inp)
  /\ mp' = 0
  /\ inp' = [ inp EXCEPT !.pMeth = 0 ]
  /\ pc' = "grid_point"
  /\ UNCHANGED << variant, bestResult, nValidated, result, plan, yalpsVars,
                  priceVars, prevDelta, cross, crossAt, data, calcVars, todo,
                  settingsVars >>

\* Lines 179-199 for the running profit runProfit, and the loop's step.
GridRecord(runProfit) ==
  /\ cross' = AppNextCross(mp, prevDelta, WSub(runProfit, shutProfit), cross)
  /\ crossAt' = IF AppCrosses(prevDelta, WSub(runProfit, shutProfit), cross)
                  THEN << mp, prevDelta[1], WSub(runProfit, shutProfit) >> ELSE crossAt
  /\ prevDelta' = << WSub(runProfit, shutProfit) >>
  /\ data' = Append(data, [ mp |-> mp, run |-> runProfit, shut |-> shutProfit ])
  /\ mp' = mp + GridStep
  /\ IF mp + GridStep <= MaxGridIdx * GridStep
       THEN inp' = [ inp EXCEPT !.pMeth = (mp + GridStep) * 100000 ] /\ pc' = "grid_point"
       ELSE inp' = inp /\ pc' = "swept"
  /\ UNCHANGED << variant, bestResult, nValidated, result, plan, yalpsVars, priceVars,
                  shutProfit, calcVars, todo, settingsVars >>

GridSweepPoint ==
  /\ pc = "grid_point"
  /\ \E runProfit \in GridProfits(shutProfit) : GridRecord(runProfit)

InitGrid ==
  /\ variant = "grid"
  /\ inp \in AppInputs
  /\ pc = "grid"
  /\ bestResult = <<>>
  /\ nValidated = 0
  /\ result = <<>>
  /\ plan = NoPlan
  /\ NoYalps
  /\ NoPrice
  /\ NoSweep
  /\ InitialSettings
  /\ NoCalc

NextGrid ==
  \/ GridStartSweep
  \/ GridSweepPoint

(***************************************************************************)
(* The three shutdown sweeps together: that of Dashboard.jsx on the third  *)
(* of the inputs swept, and those of App.tsx and dashboard.jsx.            *)
(***************************************************************************)
InitShutdown ==
  \/ InitSweep /\ inp.pUrea = 21835200
  \/ InitApp
  \/ InitGrid

NextShutdown ==
  \/ NextSweep
  \/ NextApp
  \/ NextGrid

SpecShutdown == InitShutdown /\ [][NextShutdown]_vars

(***************************************************************************)
(* Properties of solveLP (Dashboard.jsx) and of the YALPS variant.         *)
(***************************************************************************)
\* solveLP of Dashboard.jsx has returned r, and r is not the fallback.
VertexReturned == variant = "vertex" /\ result # <<>>

Feasible(r) == r.caseLabel # "INFEASIBLE"

\* C1: the solution solveLP returns has the highest profit of all plans that
\* satisfy every constraint of their case, so no feasible plan of either case
\* has a profit above the returned one.
C1_ReturnsOptimum ==
  (pc = "compared" /\ PlanFeasible(plan, inp))
    => WLeq(PlanProfit(plan, inp), result[1].profit)

\* The gas flow recorded in r is the flow calcGas computes for r's plan, and
\* it is within the tolerance of the ceiling.
GasWithinCeiling(r, i) ==
  /\ r.gasMMSCFD = calcGas(r.K10A, r.K10B, r.D5A, r.D5B, r.K9A, r.K9B, i.days).mmscfd
  /\ r.gasMMSCFD <= i.maxGasMMSCFD + TolGas

\* C2: the gas flow of every returned feasible solution, and of every
\* incumbent bestResult on the way, is at most maxGasMMSCFD + 0.01; a
\* candidate of larger flow never becomes bestResult.
C2_GasWithinCeiling ==
  variant = "vertex" =>
    /\ bestResult # <<>> => GasWithinCeiling(bestResult[1], inp)
    /\ (result # <<>> /\ Feasible(result[1])) => GasWithinCeiling(result[1], inp)

\* A feasible solution is returned whose gas flow is above the ceiling, inside
\* the tolerance.
C2_GasBindingReturned ==
  /\ VertexReturned
  /\ Feasible(result[1])
  /\ result[1].gasMMSCFD > inp.maxGasMMSCFD

\* C3: a returned Case-A solution has D5 >= R13, a returned Case-B solution
\* (B1 or B2) has D5 < R13, and Case A is never returned when the methanol
\* capacity of the period is below R13.
C3_CasePartition ==
  VertexReturned =>
    /\ result[1].caseLabel = "A" => result[1].D5 >= R13(inp)
    /\ result[1].caseLabel \in { "B1", "B2" } => result[1].D5 < R13(inp)
    /\ maxD5(inp) < R13(inp) => result[1].caseLabel # "A"

\* Case A is returned with methanol exactly at the threshold.
C3_CaseAAtThreshold ==
  /\ VertexReturned
  /\ result[1].caseLabel = "A"
  /\ result[1].D5 = R13(inp)

\* C4: in every returned solution the saleable ammonia K10 - K7 * K9
\* is at least -0.01 MT and the gross ammonia K10 is not negative.
C4_SaleableAmmonia ==
  VertexReturned =>
    /\ result[1].K10 >= 0
    /\ result[1].K10 - K7Times(result[1].K9) >= -TolMass
    /\ result[1].K8 = K7Times(result[1].K9)

\* A feasible solution is returned that makes urea at capacity and still has
\* ammonia to sell.
C4_UreaAtCapacity ==
  /\ VertexReturned
  /\ Feasible(result[1])
  /\ result[1].K9 = maxE5(inp)
  /\ result[1].K11 > 0

AllZero(r) ==
  /\ r.D5 = 0 /\ r.K10 = 0 /\ r.K9 = 0 /\ r.K8 = 0 /\ r.K11 = 0 /\ r.K4 = 0

\* C5: solveLP returns the solution marked infeasible exactly when no
\* candidate of either case passed validation, with every volume zero, and
\* it always returns; the YALPS variant does the same with caseType
\* 'Infeasible' (and 'Infeasible-A', 'Infeasible-B' for a forced case).
C5_InfeasibleSentinel ==
  /\ (variant = "vertex" /\ pc = "return") => ENABLED Return
  /\ VertexReturned =>
       /\ result[1].caseLabel = "INFEASIBLE" <=> nValidated = 0
       /\ result[1].caseLabel = "INFEASIBLE" =>
            /\ AllZero(result[1])
            /\ result[1].gasMMSCFD = 0 /\ result[1].gasNm3 = 0
            /\ result[1].profit = Dollars(0, 0)
  /\ (variant = "yalps" /\ pc = "select") => ENABLED YalpsReturn
  /\ (variant = "yalps" /\ result # <<>>) =>
       /\ result[1].caseType \in { "Infeasible", "Infeasible-A", "Infeasible-B" }
            <=> (resA = <<>> /\ resB = <<>>)
       /\ result[1].caseType = "Infeasible" => forceCase = "none"
       /\ result[1].caseType \in { "Infeasible", "Infeasible-A", "Infeasible-B" }
            => AllZero(result[1]) /\ result[1].gas = 0

\* solveLP returns the infeasible solution after every candidate was rejected.
C5_InfeasibleReturned ==
  /\ VertexReturned
  /\ result[1].caseLabel = "INFEASIBLE"
  /\ nValidated = 0

(***************************************************************************)
(* Properties of the price sensitivity.                                    *)
(***************************************************************************)
\* solveLP has returned for the raised price; before holds the earlier result.
Resolved == pc = "done" /\ before # <<>> /\ raised.product \in Products

\* C6: raising one product's price, everything else equal, never lowers the
\* profit solveLP reports.
C6_PriceMonotone == Resolved => WLeq(before[1].profit, result[1].profit)

AtMethanolCost(i) == [ i EXCEPT !.pMeth = calcVC(i.gasPrice).meth ]

\* C8: calcShutdownProfit returns the profit the Case-B optimisation of
\* solveLP returns for the same inputs when methanol is held at its lower
\* bound (to within one dollar).
C8_ShutdownIsCaseB ==
  pc = "swept" =>
    /\ WLeq(WSub(shutProfit, CaseBForced(AtMethanolCost(inp)).profit), Dollars(1, 0))
    /\ WLeq(WSub(CaseBForced(AtMethanolCost(inp)).profit, shutProfit), Dollars(1, 0))

\* C9: a crossover price is interpolated between two consecutive grid points
\* of which the first has run profit <= shutdown profit and the second has
\* run profit > shutdown profit, and it is the price at which the
\* interpolated run profit equals the shutdown profit.
C9_CrossoverInterpolates ==
  (pc = "swept" /\ cross # <<>>) =>
    /\ WLeq(crossAt[2], Dollars(0, 0))
    /\ WLess(Dollars(0, 0), crossAt[3])
    /\ Abs(cross[1] - Interpolate(crossAt[1], crossAt[2], crossAt[3], Dollars(0, 0))) <= 1

\* C10: the crossover price is null when the run profit is above the shutdown
\* profit at every grid point, and when it is at or below the shutdown
\* profit at every grid point.
C10_NoCrossover ==
  pc = "swept" =>
    /\ (\A k \in 1..Len(data) : WLess(data[k].shut, data[k].run)) => cross = <<>>
    /\ (\A k \in 1..Len(data) : WLeq(data[k].run, data[k].shut)) => cross = <<>>

(***************************************************************************)
(* C11.  With prices, capacities, gas ceiling and days fixed, the profit   *)
(* solveLP returns is non-increasing in the gas price over the grid of the *)
(* gas sensitivity: of two points pushed, the later one (higher gas price) *)
(* has a profit at most that of the earlier one, the infeasible fallback   *)
(* of profit 0 included.                                                   *)
(***************************************************************************)
C11_GasMonotone ==
  pc = "gasSwept" =>
    \A j, k \in 1..Len(data) : j < k => WLeq(data[k].p, data[j].p)

\* A call of calcVC, or of calcGas, has returned; and a second call, with
\* an argument raised, has.
CalledVC == pc = "called" /\ args.fn = "calcVC"

CalledGas == pc = "called" /\ args.fn = "calcGas"

(***************************************************************************)
(* C12.  calcVC at the reference gas price 5 returns the documented base   *)
(* unit costs 198.60366 (Case-A ammonia), 205.34865 (methanol) and         *)
(* 146.31378 (Case-A urea): exactly in the ratio form of dashboard.jsx, to *)
(* the five decimals documented in the slope/intercept form of             *)
(* Dashboard.jsx.                                                          *)
(***************************************************************************)
C12_BaseCosts ==
  (CalledVC /\ variant \in { "vertex", "ratio" } /\ args.gasPrice = RefGasPrice) =>
    /\ out[1].ammA = VC_amm_base
    /\ out[1].meth = VC_meth_base
    /\ out[1].ureaA = VC_urea_base

C12_AtReference ==
  /\ CalledVC /\ variant = "vertex" /\ args.gasPrice = RefGasPrice
  /\ out[1].ammA = VC_amm_base /\ out[1].ureaA = VC_urea_base

(***************************************************************************)
(* C13.  At every gas price calcVC (Dashboard.jsx, dashboard.jsx and       *)
(* part_002) returns Case-B unit costs that exceed the Case-A ones by a    *)
(* fixed penalty: ammB - ammA = VP = 15 and ureaB - ureaA = K7 x VP =      *)
(* 8.55; the methanol unit cost is one field, the same in both cases.      *)
(***************************************************************************)
C13_CaseBPenalty ==
  CalledVC =>
    /\ out[1].ammB - out[1].ammA = VP
    /\ out[1].ureaB - out[1].ureaA = (K7 * VP) \div 100
    /\ DOMAIN out[1] = { "ammA", "ammB", "meth", "ureaA", "ureaB" }

C13_PenaltyAboveReference ==
  /\ CalledVC /\ variant = "vertex" /\ args.gasPrice > RefGasPrice
  /\ out[1].ureaB = out[1].ureaA + 855000

NoneBetterAmong(cs, p, i) ==
  \A n \in 1..Len(cs) :
    Validated(MakeResult(cs[n], i), i) =>
      WLeq(MakeResult(cs[n], i).profit, WAdd(p, Dollars(0, TolProfit)))

\* The profits p and q are at most 0.001 apart.
WithinTolerance(p, q) ==
  WLeq(p, WAdd(q, Dollars(0, TolProfit))) /\ WLeq(q, WAdd(p, Dollars(0, TolProfit)))

\* solveLP has returned after running its blocks in some order.
ReturnedInSomeOrder == pc = "done" /\ todo = {} /\ nValidated > 0

(***************************************************************************)
(* C16.  The profit solveLP returns does not depend on the order in which  *)
(* Case A, Case B and their candidates are evaluated: whatever the order,  *)
(* the returned profit is the one the order of the code returns.           *)
(***************************************************************************)
C16_SameProfitAnyOrder ==
  (pc = "done" /\ todo = {}) => result[1].profit = solveLP(inp).profit

\* C16 as amended: whatever the order, the returned profit is that of a
\* validated candidate and no validated candidate exceeds it by more than
\* 0.001, so that two orders return profits at most 0.001 apart; with no
\* validated candidate every order returns the INFEASIBLE result.
C16_WithinToleranceAnyOrder ==
  (pc = "done" /\ todo = {}) =>
    IF nValidated = 0
      THEN result[1] = solveLP(inp) /\ result[1].caseLabel = "INFEASIBLE"
      ELSE /\ NoneBetterAmong(Candidates(inp), result[1].profit, inp)
           /\ WithinTolerance(result[1].profit, solveLP(inp).profit)

C16_OrderChangedProfit ==
  ReturnedInSomeOrder /\ result[1].profit # solveLP(inp).profit

\* solveLP has returned for the third time, on the arguments of the first
\* call.
Repeated == pc = "done" /\ raised.product = "restored"

C18_BoxBounds ==
  (VertexReturned /\ Feasible(result[1])) =>
    /\ 0 <= result[1].D5 /\ result[1].D5 <= maxD5(inp)
    /\ 0 <= result[1].K9 /\ result[1].K9 <= maxE5(inp)
    /\ 0 <= result[1].K4 /\ result[1].K4 <= maxK4(inp)

(***************************************************************************)
(* C19.  In every returned Case-B solution whose gross ammonia K10B        *)
(* exceeds D33 = maxUreaDaily x days / C33_COEFF, urea K9B is at most      *)
(* C33_COEFF x K10B; in every other returned solution (Case A, or Case B   *)
(* with K10B <= D33) urea is limited by maxUreaDaily x days alone.         *)
(***************************************************************************)
C19_YieldCeiling ==
  (VertexReturned /\ Feasible(result[1])) =>
    IF result[1].caseLabel # "A" /\ result[1].K10B > D33(inp)
      THEN result[1].K9B <= C33Times(result[1].K10B)
      ELSE result[1].K9 <= maxE5(inp)

\* The sweep of App.tsx has recorded a grid point; pt is the point pushed
\* last, for which resA and resB are the outcomes of the two cases.
AppRecorded == variant = "yalps" /\ pc \in { "app_point", "swept" } /\ data # <<>>

CaseABest(a, b) == a # <<>> /\ (b = <<>> \/ ~WLess(a[1].profit, b[1].profit))

(***************************************************************************)
(* C20.  In the shutdown sweep of App.tsx the running profit recorded at   *)
(* a methanol grid price equals the profit solveLP without a forced case   *)
(* (the Case Selector) returns for that price, all else unchanged.         *)
(***************************************************************************)
C20_RunningIsSelectorProfit ==
  AppRecorded => data[Len(data)].run = YalpsSelect("none", resA, resB).profit

\* C20, amended: the running profit recorded at a methanol grid price is the
\* profit of solveLP with case A forced, that is the profit of the case-A
\* result or -Infinity when case A has none; it equals the profit of the Case
\* Selector exactly when case A has a result and case B has none or none of
\* higher profit.
C20_RunningIsForcedCaseA ==
  AppRecorded =>
    /\ data[Len(data)].mp = mp - GridStep
    /\ data[Len(data)].run = (IF resA = <<>> THEN NegInfinity ELSE resA[1].profit)
    /\ data[Len(data)].run = YalpsSelect("none", resA, resB).profit
         <=> CaseABest(resA, resB)

\* A point is recorded with the profit of case A although case B has the
\* higher profit.
C20_CaseBBetterAtPoint ==
  /\ AppRecorded
  /\ resA # <<>> /\ resB # <<>> /\ WLess(resA[1].profit, resB[1].profit)
  /\ data[Len(data)].run = resA[1].profit

\* solveGPICWithGLPK has returned.
GlpkReturned == variant = "glpk" /\ pc = "done"

(***************************************************************************)
(* C21.  For valid inputs the program solveGPICWithGLPK builds has a       *)
(* feasible assignment for at least one value of the binary y1, and the    *)
(* function returns with solverStatus 'OPTIMAL', and with caseId 'A'       *)
(* exactly when y1 = 1.                                                    *)
(***************************************************************************)
C21_FeasibleAndOptimal ==
  GlpkReturned =>
    /\ ~GlpkNoFeasible(inp)
    /\ result[1].solverStatus = "OPTIMAL"
    /\ result[1].caseId = "A" <=> result[1].y1 = 1

(***************************************************************************)
(* C22.  After any sequence of updateSetting calls, resetSettings makes    *)
(* every field of settings equal to BASE_DEFAULTS again; updateSetting     *)
(* changes the named key only; and BASE_DEFAULTS itself is never modified. *)
(***************************************************************************)
C22_SettingsFrame ==
  /\ baseDefaults = BASE_DEFAULTS
  /\ pc = "reset" => settings = BASE_DEFAULTS
  /\ pc = "updated" =>
       /\ settings[args[1]] = args[2]
       /\ \A k \in SettingKeys \ { args[1] } : settings[k] = before[1][k]
       /\ DOMAIN settings = SettingKeys

\* resetSettings has run after updates that left two fields off their
\* defaults.
C22_ResetAfterUpdates ==
  /\ pc = "reset"
  /\ before[1].K7 # BASE_DEFAULTS.K7
  /\ before[1].ammCapLoss_B # BASE_DEFAULTS.ammCapLoss_B
  /\ settings = BASE_DEFAULTS

\* r is the result of a validated candidate among cs.
ValidatedAmong(cs, r, i) ==
  \E n \in 1..Len(cs) : MakeResult(cs[n], i) = r /\ Validated(r, i)

\* A validated candidate among cs has a profit above p.
SomeAbove(cs, p, i) ==
  \E n \in 1..Len(cs) :
    Validated(MakeResult(cs[n], i), i) /\ WLess(p, MakeResult(cs[n], i).profit)

(***************************************************************************)
(* C23.  The solution solveLP returns is one of the validated candidates,  *)
(* and no validated candidate of either case has a profit more than 0.001  *)
(* above the returned one.                                                 *)
(***************************************************************************)
C23_BestValidatedWithinTolerance ==
  (VertexReturned /\ pc = "done" /\ Feasible(result[1])) =>
    /\ ValidatedAmong(Candidates(inp), result[1], inp)
    /\ NoneBetterAmong(Candidates(inp), result[1].profit, inp)

\* solveLP has returned a solution although a validated candidate has a
\* higher profit, by less than the tolerance.
C23_HigherWithinTolerance ==
  /\ VertexReturned /\ pc = "done" /\ Feasible(result[1])
  /\ SomeAbove(Candidates(inp), result[1].profit, inp)

\* The value the solver's own bisection operator gives for the bisection b.
BisectValue(b, i) ==
  CASE b.kind = "A" -> BisectA(b.lo0, b.hi0, 0, b.D5, b.E5, i)
    [] b.kind = "B1" -> BisectB1(b.lo0, b.hi0, 0, b.D5, b.E5, i)
    [] OTHER -> BisectB2(b.lo0, b.hi0, 0, b.D5, b.E5, i)

GasFeasibleAt(b, K4, i) ==
  BisectGas(b.kind, K4, b.D5, b.E5, i) <= i.maxGasMMSCFD + TolGasBisect

\* What holds of a bisection b that started with lo <= hi, at any time and
\* on exit.
BisectionHolds(b, exited, i) ==
  /\ b.lo <= b.hi /\ b.lo0 <= b.lo /\ b.hi <= b.hi0
  /\ exited =>
       /\ b.lo = b.lo0 \/ GasFeasibleAt(b, b.lo, i)
       /\ GasFeasibleAt(b, b.hi0, i) => b.hi0 - b.lo <= 1
       /\ b.lo = BisectValue(b, i)

(***************************************************************************)
(* C24.  Each gas-ceiling bisection of solveLP runs exactly 60 halvings    *)
(* and then stops; started with lo <= hi it keeps lo <= hi throughout; on  *)
(* exit lo is its initial lower endpoint or an ammonia level whose gas     *)
(* flow is at most maxGas + 0.001, and lo is at the upper endpoint (up to  *)
(* the resolution the halving reaches, one mass unit here) when the upper  *)
(* endpoint itself is gas-feasible.                                        *)
(***************************************************************************)
C24_Bisection ==
  /\ pc = "bisect" => args[1].iter <= Iterations
  /\ pc = "bisected" => args[1].iter = Iterations /\ out[1] = args[1].lo
  /\ (pc \in { "bisect", "bisected" } /\ args[1].lo0 <= args[1].hi0) =>
       BisectionHolds(args[1], pc = "bisected", inp)

\* A bisection has ended strictly inside its interval, at the gas ceiling.
C24_EndedAtGasCeiling ==
  /\ pc = "bisected"
  /\ args[1].lo0 < args[1].lo /\ args[1].lo < args[1].hi0 - 1
  /\ GasFeasibleAt(args[1], args[1].lo, inp)
  /\ ~GasFeasibleAt(args[1], args[1].hi0, inp)

(***************************************************************************)
(* C25.  The label solveLP returns matches the sub-case definition: a      *)
(* solution is labelled "B1" (y2 = 1) only when K10B <= D33, its urea      *)
(* then being a demand the candidate lists offer, and it is labelled "B2"  *)
(* (y2 = 0) exactly when K10B > D33 with K9B = C33_COEFF x K10B below the  *)
(* urea demand.                                                            *)
(***************************************************************************)
C25_LabelMatchesSubCase ==
  (VertexReturned /\ pc = "done" /\ Feasible(result[1])) =>
    /\ result[1].caseLabel = "B1" =>
         /\ result[1].y2 = 1
         /\ result[1].K10B <= D33(inp)
         /\ result[1].K9B \in { e5BCandidates(inp)[n] : n \in 1..2 }
    /\ result[1].caseLabel = "B2" <=>
         /\ result[1].y1 = 0 /\ result[1].y2 = 0
         /\ result[1].K10B > D33(inp)
         /\ result[1].K9B = C33Times(result[1].K10B)
         /\ result[1].K9B < maxE5(inp)

\* makeResult has run on a solution the library reported as optimal.
Made == variant = "yalps" /\ pc = "made" /\ args # <<>>

\* Every result returned has a gas flow of at most maxGas x 1.001.
WithinHardLimit == out # <<>> => out[1].gas <= inp.maxGasMMSCFD + inp.maxGasMMSCFD \div 1000

(***************************************************************************)
(* C26, as stated.  applyGTAdditional never pushes the reported gas above  *)
(* the ceiling: for a base flow <= maxGas it returns base + min(maxGas -   *)
(* base, GT_additional_max), which lies in [base, maxGas]; for a base flow *)
(* > maxGas it returns base unchanged; every result has gas <= maxGas x    *)
(* 1.001.                                                                  *)
(***************************************************************************)
C26_GasWithinBaseAndCeiling ==
  Made =>
    /\ args[1] <= inp.maxGasMMSCFD =>
         /\ args[2] = args[1] + Min(inp.maxGasMMSCFD - args[1], settings.GT_additional_max)
         /\ args[1] <= args[2] /\ args[2] <= inp.maxGasMMSCFD
    /\ args[1] > inp.maxGasMMSCFD => args[2] = args[1]
    /\ WithinHardLimit

(***************************************************************************)
(* C26, amended.  For a base flow < maxGas applyGTAdditional returns base  *)
(* + min(maxGas - base, GT_additional_max), which is at most maxGas, and   *)
(* at least base when GT_additional_max >= 0; for a base flow >= maxGas it *)
(* returns base unchanged; every result has gas <= maxGas x 1.001.         *)
(***************************************************************************)
C26_GasWithinCeiling ==
  Made =>
    /\ args[1] < inp.maxGasMMSCFD =>
         /\ args[2] = args[1] + Min(inp.maxGasMMSCFD - args[1], settings.GT_additional_max)
         /\ args[2] <= inp.maxGasMMSCFD
         /\ settings.GT_additional_max >= 0 => args[1] <= args[2]
    /\ args[1] >= inp.maxGasMMSCFD => args[2] = args[1]
    /\ WithinHardLimit

\* The headroom is smaller than GT_additional_max: the result is at the
\* ceiling.
C26_CappedByHeadroom ==
  /\ Made /\ out # <<>>
  /\ args[1] < inp.maxGasMMSCFD
  /\ inp.maxGasMMSCFD - args[1] < settings.GT_additional_max
  /\ out[1].gas = inp.maxGasMMSCFD

\* The shutdown sweep has priced its shutdown plan (Dashboard.jsx line 566).
ShutdownPriced == pc = "caseA_vertices" /\ mp = 0 /\ data = <<>> /\ bestResult = <<>>

(***************************************************************************)
(* C27.  The plan priced as the constant shutdown profit satisfies the     *)
(* constraints solveLP enforces on a Case-B solution: saleable ammonia     *)
(* K10 - K7 x K9 >= 0 (within 0.01), gross ammonia >= 0, and gas flow <=   *)
(* maxGas (within 0.01).                                                   *)
(***************************************************************************)
C27_ShutdownPlanFeasible ==
  ShutdownPriced =>
    /\ ShutPlan(inp)[1] - K7Times(ShutPlan(inp)[2]) >= -TolMass
    /\ ShutPlan(inp)[1] >= 0
    /\ ShutGas(ShutPlan(inp)[1], inp) <= inp.maxGasMMSCFD + TolGas
    /\ shutProfit = ShutProfitOf(ShutPlan(inp), inp)

\* The fields of case A, or of case B, of a result r are all zero.
CaseAZero(r) == r.D5A = 0 /\ r.K4A = 0 /\ r.K10A = 0 /\ r.K9A = 0

CaseBZero(r) == r.D5B = 0 /\ r.K4B = 0 /\ r.K10B = 0 /\ r.K9B = 0

ConsistentTotals(r, days) ==
  /\ r.D5 = r.D5A + r.D5B /\ r.K10 = r.K10A + r.K10B /\ r.K9 = r.K9A + r.K9B
  /\ r.K8 = K7Times(r.K9)
  /\ r.K11 = Max(0, r.K10 - r.K8)
  /\ RatioTimes(r.dailyAmm, days) = r.K11

(***************************************************************************)
(* C28.  Every feasible solution solveLP returns has exactly one case      *)
(* active and consistent totals: label "A" implies D5B = K4B = K10B = K9B  *)
(* = 0 and y1 = 1; a Case-B label implies D5A = K4A = K10A = K9A = 0 and   *)
(* y1 = 0; D5 = D5A + D5B, K10 = K10A + K10B, K9 = K9A + K9B, K8 = K7 x    *)
(* K9, K11 = max(0, K10 - K8), and dailyAmm x days = K11.                  *)
(***************************************************************************)
C28_OneCaseConsistentTotals ==
  (VertexReturned /\ pc = "done" /\ Feasible(result[1])) =>
    /\ result[1].caseLabel = "A" => CaseBZero(result[1]) /\ result[1].y1 = 1
    /\ result[1].caseLabel # "A" => CaseAZero(result[1]) /\ result[1].y1 = 0
    /\ ConsistentTotals(result[1], inp.days)

\* The profit difference at which the sweep of the state sees a crossing:
\* 200 $ in Dashboard.jsx (line 571), 0 in dashboard.jsx (line 187) and
\* App.tsx (line 109).
Threshold == IF variant = "vertex" THEN Dollars(CrossThreshold, 0) ELSE Dollars(0, 0)

\* A non-null crossover is a finite number inside the grid interval
\* [mp - 5, mp] at which it was assigned, hence inside [0, 350].
CrossoverInInterval ==
  cross # <<>> =>
    /\ crossAt # <<>>
    /\ cross[1] # NaN
    /\ (crossAt[1] - GridStep) * 100000 <= cross[1] /\ cross[1] <= crossAt[1] * 100000
    /\ 0 <= cross[1] /\ cross[1] <= GridMax * 100000

\* The step records a grid point at which the difference passes the
\* threshold from not above to above.
CrossingDetected ==
  /\ data' # data /\ prevDelta # <<>>
  /\ WLeq(prevDelta[1], Threshold) /\ WLess(Threshold, prevDelta'[1])

\* The crossover is assigned at the first crossing detected and never again.
AssignedOnce ==
  /\ cross # <<>> => cross' = cross
  /\ (cross = <<>> /\ CrossingDetected) => (cross' # <<>> /\ crossAt'[1] = mp)
  /\ (cross = <<>> /\ cross' # <<>>) => CrossingDetected

(***************************************************************************)
(* C29.  In every shutdown sweep (Dashboard.jsx, dashboard.jsx, App.tsx)   *)
(* the crossover is assigned at most once, at the first grid interval      *)
(* where a crossing is detected, and a non-null crossover is a finite      *)
(* number inside that interval [mp - 5, mp], hence inside [0, 350].        *)
(***************************************************************************)
C29_CrossoverOnceInInterval == []CrossoverInInterval /\ [][AssignedOnce]_vars

\* A sweep has recorded a second crossing after the crossover was assigned,
\* and the crossover is the one of the first.
C29_SecondCrossingIgnored ==
  /\ cross # <<>> /\ cross[1] # NaN
  /\ crossAt[1] < mp - GridStep
  /\ Len(data) >= 2
  /\ WLeq(WSub(data[Len(data) - 1].run, shutProfit), Threshold)
  /\ WLess(Threshold, prevDelta[1])

\* Dashboard.jsx lines 554-557: the revenue and cost breakdown of a result r.
revAmm(r, i) == WideMul(i.pAmm, r.K11)

revMeth(r, i) == WideMul(i.pMeth, r.D5)

revUrea(r, i) == WideMul(i.pUrea, r.K9)

vcTotal(r) ==
  WAdd(WAdd(WideMul(r.vcAmm, r.K10), WideMul(r.vcMeth, r.D5)), WideMul(r.vcUrea, r.K9))

\* Lines 734-738: revenues less variable costs less fixed costs.
BreakdownTotal(r, i) ==
  WSub(WSub(WAdd(WAdd(revAmm(r, i), revMeth(r, i)), revUrea(r, i)), vcTotal(r)), FC_TOTAL)

(***************************************************************************)
(* C30.  For every feasible solution the breakdown the dashboard shows     *)
(* adds up to the reported profit: ammonia, methanol and urea revenue less *)
(* variable costs (vcTotal) less fixed costs equals result.profit.         *)
(***************************************************************************)
C30_BreakdownAddsUp ==
  (VertexReturned /\ pc = "done" /\ Feasible(result[1])) =>
    BreakdownTotal(result[1], inp) = result[1].profit

====
